---- MODULE Spec2Model ----
(***************************************************************************)
(* Velograph backend: the lineage graph (TeamNode, TeamEra, LineageEvent,  *)
(* TeamSponsorLink), the edit/moderation workflow (EditService,            *)
(* ModerationService) and the services that write the graph (TeamService,  *)
(* LineageService, SponsorService).                                        *)
(*                                                                         *)
(* Every action is one service call together with the transaction it runs  *)
(* in: the variables hold the committed rows of the store; an operation    *)
(* that raises leaves them as the last commit left them.                   *)
(***************************************************************************)
EXTENDS Integers, Sequences, FiniteSets, TLC

\* ------------------------------------------------------------------ bounds
MaxYear == 1901
MaxNodes == 4
MaxEras == 4
MaxEvents == 1
MaxEdits == 1
MaxLinks == 2
MaxBrands == 2
MaxRank == 2
MaxSources == 2
MaxTargets == 2
MaxCount == 2
MaxReaders == 2
MaxWrites == 1
MaxShuffle == 3
MaxLegs == 2
MaxApprovals == 6
MaxSubmissions == 5
MaxSessions == 2
MaxSplits == 2
MaxCallers == 3
MaxClock == 5
min_delay == 2
\* the year the clock shows (datetime.now().year)
current_year == 2025

\* ------------------------------------------------------- program constants
\* Python None of an Optional[int] column or argument (ids and years are >= 1)
None == 0
\* Python None of an Optional[str] column or argument
NoneStr == "<None>"
MinYear == 1900
MaxSeasonYear == 2100
PromotionThreshold == 5
MaxProminence == 100

VARIABLES nodes, eras, events, edits, users, links, last, cache, readers, writer,
          sessions, limiter

vars == <<nodes, eras, events, edits, users, links, last, cache, readers, writer,
          sessions, limiter>>

\* ----------------------------------------------------------------- inputs
Users == {"u_new", "u_trusted", "u_admin", "u_guest", "u_banned"}
Years == (MinYear - 1)..MaxYear
BrandIds == 1..MaxBrands

\* ------------------------------------------------------- string functions
\* str.strip() on the strings the model uses
strip(s) ==
    CASE s = " Sky " -> "Sky"
      [] s = " Ineos " -> "Ineos"
      [] s = " United " -> "United"
      [] s = " Alpha " -> "Alpha"
      [] s = "   " -> ""
      [] OTHER -> s

\* str.isalpha() / str.isupper() on the codes the model uses
isalpha(s) == s \in {"SKY", "IGD", "sky"}
isupper(s) == s \in {"SKY", "IGD", "S1Y"}

\* Python truthiness of an optional string / optional int
truthy_str(s) == s # NoneStr /\ s # ""
truthy_int(i) == i # None

\* ------------------------------------------------------- model validators
validate_founding_year(value) == value >= MinYear

validate_uci_code(value) ==
    value = NoneStr \/ (Len(value) = 3 /\ isalpha(value) /\ isupper(value))

validate_registered_name(value) == value # NoneStr /\ strip(value) # ""

validate_tier_level(value) == value = None \/ value \in {1, 2, 3}

TeamNode(founding_year) ==
    [founding_year |-> founding_year, dissolution_year |-> None]

TeamEra(node_id, season_year, registered_name, uci_code, tier_level, source_origin, is_manual_override) ==
    [node_id |-> node_id, season_year |-> season_year,
     registered_name |-> strip(registered_name), uci_code |-> uci_code,
     tier_level |-> tier_level, source_origin |-> source_origin,
     is_manual_override |-> is_manual_override]

User(role, is_banned) ==
    [role |-> role, approved_edits_count |-> 0, is_banned |-> is_banned]

can_edit(u) ==
    u.role \in {"NEW_USER", "TRUSTED_USER", "ADMIN"} /\ ~u.is_banned

\* the outcome of the last operation: what the caller was told
Outcome(op, result, edit, arg) ==
    [op |-> op, result |-> result, edit |-> edit, arg |-> arg]

\* ------------------------------------------------- TimelineService state
\* TimelineService._cache after clear(): no key has an entry
EmptyCache == [k \in {} |-> {}]

\* the get_graph_data calls in flight, and one that is not
Readers == 1..MaxReaders
IdleReader == [pc |-> "idle"]

\* the database sessions of concurrent link_sponsor_to_era callers, each with
\* its own transaction
Sessions == 1..MaxSessions
IdleSession == [pc |-> "idle"]

\* the create_era call in flight, and none
IdleWriter == [pc |-> "idle", op |-> "none", pending |-> << >>, commits |-> 0]

\* ------------------------------------------------- RateLimiter, at rest
\* the coroutines that call wait_if_needed, and the domains they ask for
Callers == 1..MaxCallers
Domains == {"example.com", "domain2.com"}

\* defaultdict(lambda: None): no request to the domain yet
NoTime == -1

\* no coroutine holds the lock
Unlocked == 0

IdleCaller == [pc |-> "idle"]

\* RateLimiter.__init__, with the clock the coroutines read, the coroutines
\* themselves and the calls that have returned, in the order they returned
RateLimiter ==
    [now |-> 0,
     last_request_time |-> [d \in Domains |-> NoTime],
     _locks |-> [d \in Domains |-> Unlocked],
     callers |-> [c \in Callers |-> IdleCaller],
     returned |-> << >>]

\* ------------------------------------------------------------------- Init
Init ==
    /\ nodes = <<TeamNode(MinYear), TeamNode(MinYear + 1)>>
    /\ eras = <<TeamEra(1, MinYear, "Sky", NoneStr, 1, "manual", FALSE),
                 TeamEra(2, MinYear + 1, "Sky", NoneStr, 1, "manual", FALSE)>>
    /\ events = << >>
    /\ edits = << >>
    /\ links = << >>
    /\ users = [u \in Users |->
                  CASE u = "u_new" -> User("NEW_USER", FALSE)
                    [] u = "u_trusted" -> User("TRUSTED_USER", FALSE)
                    [] u = "u_admin" -> User("ADMIN", FALSE)
                    [] u = "u_guest" -> User("GUEST", FALSE)
                    [] OTHER -> User("NEW_USER", TRUE)]
    /\ last = Outcome("init", "ok", None, << >>)
    /\ cache = EmptyCache
    /\ readers = [r \in Readers |-> IdleReader]
    /\ writer = IdleWriter
    /\ sessions = [s \in Sessions |-> IdleSession]
    /\ limiter = RateLimiter

\* ------------------------------------------------------------ TeamService
\* the era a (node, year) pair already has, as the duplicate query finds it
EraOf(es, node_id, year) ==
    {i \in 1..Len(es) : es[i].node_id = node_id /\ es[i].season_year = year}

\* UniqueConstraint uq_node_year, checked by the store at commit
uq_node_year(es) ==
    \A i, j \in 1..Len(es) :
        (es[i].node_id = es[j].node_id /\ es[i].season_year = es[j].season_year)
            => i = j

\* "Check for duplicate era (same node + year)"
existing_era_mutant(es, node_id, year) == FALSE
existing_era(es, node_id, year) == EraOf(es, node_id, year) # {}

create_era_result(node_id, year, registered_name, uci_code, tier_level) ==
    IF year < MinYear \/ year > MaxSeasonYear THEN "ValidationException"
    ELSE IF tier_level # None /\ tier_level \notin {1, 2, 3} THEN "ValidationException"
    ELSE IF uci_code # NoneStr /\
            (Len(uci_code) # 3 \/ ~isalpha(uci_code) \/ ~isupper(uci_code))
         THEN "ValidationException"
    ELSE IF ~truthy_str(registered_name) \/ strip(registered_name) = ""
         THEN "ValidationException"
    ELSE IF node_id \notin 1..Len(nodes) THEN "NodeNotFoundException"
    ELSE IF existing_era(eras, node_id, year) THEN "DuplicateEraException"
    ELSE IF ~uq_node_year(Append(eras, TeamEra(node_id, year, registered_name,
                                  uci_code, tier_level, "manual", FALSE)))
         THEN "IntegrityError"
    ELSE "ok"

\* the eras submitted: every node (and one that does not exist) in every year
\* with well-formed fields, and one request for each malformed field
EraInputs ==
    ((1..(Len(nodes) + 1)) \X Years \X {<<" Sky ", NoneStr, 1>>})
    \cup ({1} \X {MinYear} \X {<<"   ", NoneStr, 1>>, <<" Sky ", "S1Y", 1>>,
                               <<" Sky ", NoneStr, 4>>})

create_era ==
    \E c \in EraInputs :
        LET node_id == c[1]
            year == c[2]
            r == create_era_result(node_id, year, c[3][1], c[3][2], c[3][3])
        IN  /\ (r = "ok") => Len(eras) < MaxEras
            /\ eras' = IF r = "ok"
                       THEN Append(eras, TeamEra(node_id, year, c[3][1], c[3][2],
                                                 c[3][3], "manual", FALSE))
                       ELSE eras
            /\ last' = Outcome("create_era", r, None,
                               IF r \in {"ok", "DuplicateEraException", "IntegrityError"}
                               THEN <<node_id, year>> ELSE << >>)
            /\ cache' = IF r = "ok" THEN EmptyCache ELSE cache
            /\ UNCHANGED <<nodes, events, edits, users, links, readers, writer, sessions, limiter>>

\* ------------------------------------------------------------ EditService
\* the rows one session reads and writes
Store == [nodes |-> nodes, eras |-> eras, events |-> events,
          edits |-> edits, users |-> users]

\* session.commit(): the session's rows become the committed rows
commit(db) ==
    /\ nodes' = db.nodes
    /\ eras' = db.eras
    /\ events' = db.events
    /\ edits' = db.edits
    /\ users' = db.users

Edit(user_id, edit_type, target_era_id, target_node_id, changes, reason) ==
    [user_id |-> user_id, edit_type |-> edit_type,
     target_era_id |-> target_era_id, target_node_id |-> target_node_id,
     changes |-> changes, reason |-> reason, status |-> "PENDING",
     reviewed_by |-> NoneStr, review_notes |-> NoneStr]

\* "Auto-approve for trusted users and admins"
auto_approve_mutant(role) == role \in {"NEW_USER", "TRUSTED_USER", "ADMIN"}
auto_approve(role) == role \in {"TRUSTED_USER", "ADMIN"}

EditMetadataRequest(era_id, registered_name, uci_code, tier_level, reason) ==
    [era_id |-> era_id, registered_name |-> registered_name,
     uci_code |-> uci_code, tier_level |-> tier_level, reason |-> reason]

\* the field validators of EditMetadataRequest
EditMetadataRequest_valid(request) ==
    /\ ~(truthy_str(request.uci_code) /\
         (Len(request.uci_code) # 3 \/ ~isupper(request.uci_code)))
    /\ ~(truthy_int(request.tier_level) /\ request.tier_level \notin {1, 2, 3})
    /\ Len(request.reason) >= 10

\* "Build changes dict (only include fields that are being changed)"
metadata_changes(request) ==
    LET keys == {k \in {"registered_name", "uci_code", "tier_level"} :
                    CASE k = "registered_name" -> truthy_str(request.registered_name)
                      [] k = "uci_code" -> truthy_str(request.uci_code)
                      [] OTHER -> truthy_int(request.tier_level)}
    IN  [k \in keys |-> request[k]]

\* the assignments of an era's fields from a change payload, each through the
\* column's validator; the first validator that raises stops the routine
set_era_fields(era, changes) ==
    LET e1 == IF "registered_name" \in DOMAIN changes
              THEN [era EXCEPT !.registered_name = strip(changes["registered_name"])]
              ELSE era
        ok1 == "registered_name" \in DOMAIN changes
                  => validate_registered_name(changes["registered_name"])
        e2 == IF "uci_code" \in DOMAIN changes
              THEN [e1 EXCEPT !.uci_code = changes["uci_code"]]
              ELSE e1
        ok2 == "uci_code" \in DOMAIN changes => validate_uci_code(changes["uci_code"])
        e3 == IF "tier_level" \in DOMAIN changes
              THEN [e2 EXCEPT !.tier_level = changes["tier_level"]]
              ELSE e2
        ok3 == "tier_level" \in DOMAIN changes
                  => validate_tier_level(changes["tier_level"])
    IN  IF ~ok1 THEN [ok |-> FALSE, era |-> era]
        ELSE IF ~ok2 THEN [ok |-> FALSE, era |-> e1]
        ELSE IF ~ok3 THEN [ok |-> FALSE, era |-> e2]
        ELSE [ok |-> TRUE, era |-> e3]

source_origin_of(user_id) == "user_" \o user_id

\* "Mark as manual override to prevent scraper from overwriting"
mark_manual_override_mutant(era, user_id) ==
    [era EXCEPT !.source_origin = source_origin_of(user_id)]
mark_manual_override(era, user_id) ==
    [era EXCEPT !.is_manual_override = TRUE,
                !.source_origin = source_origin_of(user_id)]

\* EditService._apply_metadata_changes: the session after the routine, and
\* whether it returned (ok) or raised
EditService_apply_metadata_changes(db, era_id, changes, user_id) ==
    LET r == set_era_fields(db.eras[era_id], changes)
    IN  IF r.ok
        THEN [ok |-> TRUE,
              db |-> [db EXCEPT !.eras[era_id] = mark_manual_override(r.era, user_id)]]
        ELSE [ok |-> FALSE, db |-> [db EXCEPT !.eras[era_id] = r.era]]

increment_approved(db, user_id) ==
    [db EXCEPT !.users[user_id].approved_edits_count = @ + 1]

add_edit(db, edit) == [db EXCEPT !.edits = Append(@, edit)]

approved_by(edit, reviewer) ==
    [edit EXCEPT !.status = "APPROVED", !.reviewed_by = reviewer]

\* the caps on the rows the model keeps
Caps(node_cap, era_cap, event_cap, edit_cap, count_cap) ==
    [nodes |-> node_cap, eras |-> era_cap, events |-> event_cap,
     edits |-> edit_cap, count |-> count_cap]

within_caps_in(db, caps) ==
    /\ Len(db.nodes) <= caps.nodes
    /\ Len(db.eras) <= caps.eras
    /\ Len(db.events) <= caps.events
    /\ Len(db.edits) <= caps.edits
    /\ \A u \in Users : db.users[u].approved_edits_count <= caps.count

within_caps_of(db, edit_cap, count_cap) ==
    within_caps_in(db, Caps(MaxNodes, MaxEras, MaxEvents + MaxTargets, edit_cap, count_cap))

within_caps(db) == within_caps_of(db, MaxEdits, MaxCount)

\* what a handler leaves behind: the reply and the committed rows
Reply(result, db, edit) == [result |-> result, db |-> db, edit |-> edit]

create_metadata_edit_reply(db, user_id, request) ==
    LET changes == metadata_changes(request)
        edit == Edit(user_id, "METADATA", request.era_id, None, changes,
                     request.reason)
        applied == EditService_apply_metadata_changes(db, request.era_id, changes,
                                                      user_id)
        new_id == Len(db.edits) + 1
    IN  IF ~can_edit(db.users[user_id]) THEN Reply("Forbidden", db, None)
        ELSE IF ~EditMetadataRequest_valid(request)
             THEN Reply("RequestValidationError", db, None)
        ELSE IF request.era_id \notin 1..Len(db.eras) THEN Reply("ValueError", db, None)
        ELSE IF DOMAIN changes = {} THEN Reply("ValueError", db, None)
        ELSE IF auto_approve(db.users[user_id].role)
             THEN IF applied.ok
                  THEN Reply("APPROVED",
                             add_edit(increment_approved(applied.db, user_id),
                                      approved_by(edit, user_id)),
                             new_id)
                  ELSE Reply("ValueError", db, None)
        ELSE Reply("PENDING", add_edit(db, edit), new_id)

\* the field combinations submitted: a rename, a new code with a new tier, a
\* rename with a code the request validator lets through, nothing at all, a
\* lower-case code, a reason that is too short
MetadataFields ==
    {<<" Ineos ", NoneStr, None, "renamed in 1900">>,
     <<NoneStr, "IGD", 2, "renamed in 1900">>,
     <<" Ineos ", "S1Y", None, "renamed in 1900">>,
     <<"", NoneStr, None, "renamed in 1900">>,
     <<NoneStr, "sky", None, "renamed in 1900">>,
     <<" Ineos ", NoneStr, None, "typo">>}

\* the calls made: every editor with every input, and one call for each
\* user the editor gate turns away
Calls(inputs) ==
    LET editors == {u \in Users : can_edit(users[u])}
    IN  (editors \X inputs) \cup
        ((Users \ editors) \X {CHOOSE i \in inputs : TRUE})

create_metadata_edit_of(calls, edit_cap, count_cap) ==
    \E c \in calls :
        LET user_id == c[1]
            era_id == c[2][1]
            f == c[2][2]
            r == create_metadata_edit_reply(Store, user_id,
                    EditMetadataRequest(era_id, f[1], f[2], f[3], f[4]))
        IN  /\ within_caps_of(r.db, edit_cap, count_cap)
            /\ commit(r.db)
            /\ last' = Outcome("create_metadata_edit", r.result, r.edit, << >>)
            /\ UNCHANGED <<links, cache, readers, writer, sessions, limiter>>

MetadataInputs ==
    ((1..Len(eras)) \X MetadataFields) \cup
    {<<Len(eras) + 1, <<" Ineos ", NoneStr, None, "renamed in 1900">> >>}

create_metadata_edit ==
    create_metadata_edit_of(Calls(MetadataInputs), MaxEdits, MaxCount)

\* one submitter sending the same rename again and again
SubmitterInputs ==
    {<<"u_new", <<1, <<" Ineos ", NoneStr, None, "renamed in 1900">> >> >>}

submit_metadata_edit ==
    create_metadata_edit_of(SubmitterInputs, MaxSubmissions, MaxApprovals)

\* ------------------------------------------------------------------ merge
MergeEventRequest(source_node_ids, merge_year, new_team_name, new_team_tier, reason) ==
    [source_node_ids |-> source_node_ids, merge_year |-> merge_year,
     new_team_name |-> strip(new_team_name), new_team_tier |-> new_team_tier,
     reason |-> reason]

\* the field validators of MergeEventRequest, on the raw fields
MergeEventRequest_valid(source_node_ids, merge_year, new_team_name, new_team_tier, reason) ==
    /\ Len(source_node_ids) >= 2 /\ Len(source_node_ids) <= 5
    /\ merge_year >= MinYear /\ merge_year <= current_year + 1
    /\ truthy_str(new_team_name) /\ Len(strip(new_team_name)) >= 3
    /\ Len(new_team_name) <= 200
    /\ new_team_tier \in {1, 2, 3}
    /\ Len(strip(reason)) >= 10

\* "Check node is active in merge year"
has_era_mutant(es, node_id, year) ==
    \E i \in 1..Len(es) : es[i].node_id = node_id
has_era(es, node_id, year) ==
    \E i \in 1..Len(es) : es[i].node_id = node_id /\ es[i].season_year = year

\* the first source the validation loop rejects (0: none)
first_rejected(db, source_node_ids, year) ==
    LET bad == {k \in 1..Len(source_node_ids) :
                    \/ source_node_ids[k] \notin 1..Len(db.nodes)
                    \/ ~has_era(db.eras, source_node_ids[k], year)}
    IN  IF bad = {} THEN 0 ELSE CHOOSE k \in bad : \A j \in bad : k <= j

\* "Create MERGE lineage event"
merge_event_mutant(source_node_id, new_node_id, merge_year, new_team_name) ==
    [previous_node_id |-> source_node_id, next_node_id |-> source_node_id,
     event_year |-> merge_year, event_type |-> "MERGE",
     notes |-> <<"Merged into " \o new_team_name>>]
merge_event(source_node_id, new_node_id, merge_year, new_team_name) ==
    [previous_node_id |-> source_node_id, next_node_id |-> new_node_id,
     event_year |-> merge_year, event_type |-> "MERGE",
     notes |-> <<"Merged into " \o new_team_name>>]

\* EditService._apply_merge: the session after the routine
EditService_apply_merge(db, request, user_id, validated_source_nodes) ==
    LET new_node_id == Len(db.nodes) + 1
        year == request.merge_year
        added == Append(db.nodes, TeamNode(year))
        closed == [i \in 1..Len(added) |->
                     IF \E k \in 1..Len(validated_source_nodes) :
                            validated_source_nodes[k] = i
                     THEN [added[i] EXCEPT !.dissolution_year = year]
                     ELSE added[i]]
        legs == [k \in 1..Len(validated_source_nodes) |->
                   merge_event(validated_source_nodes[k], new_node_id, year,
                               request.new_team_name)]
    IN  [db EXCEPT
            !.nodes = closed,
            !.eras = Append(@, TeamEra(new_node_id, year, request.new_team_name,
                                       NoneStr, request.new_team_tier,
                                       source_origin_of(user_id), TRUE)),
            !.events = @ \o legs]

create_merge_edit_reply(db, user_id, source_node_ids, merge_year, new_team_name, new_team_tier, reason) ==
    LET request == MergeEventRequest(source_node_ids, merge_year, new_team_name,
                                     new_team_tier, reason)
        k == first_rejected(db, source_node_ids, merge_year)
        edit == Edit(user_id, "MERGE", None, None,
                     [source_node_ids |-> request.source_node_ids,
                      merge_year |-> request.merge_year,
                      new_team_name |-> request.new_team_name,
                      new_team_tier |-> request.new_team_tier],
                     request.reason)
        new_id == Len(db.edits) + 1
    IN  IF ~can_edit(db.users[user_id]) THEN Reply("Forbidden", db, None)
        ELSE IF ~MergeEventRequest_valid(source_node_ids, merge_year, new_team_name,
                                         new_team_tier, reason)
             THEN Reply("RequestValidationError", db, None)
        ELSE IF k # 0 /\ source_node_ids[k] \notin 1..Len(db.nodes)
             THEN Reply("ValueError: not found", db, None)
        ELSE IF k # 0 THEN Reply("ValueError: not active", db, None)
        ELSE IF auto_approve(db.users[user_id].role)
             THEN Reply("APPROVED",
                        add_edit(increment_approved(
                                    EditService_apply_merge(db, request, user_id,
                                                            source_node_ids),
                                    user_id),
                                 approved_by(edit, user_id)),
                        new_id)
        ELSE Reply("PENDING", add_edit(db, edit), new_id)

\* the merges submitted: every list of existing nodes in every year with a
\* well-formed name, and one request for each way of being turned down
MergeInputs ==
    ((UNION {[1..n -> 1..Len(nodes)] : n \in 2..MaxSources})
        \X (MinYear..MaxYear) \X {" United "})
    \cup {<<<<1, Len(nodes) + 1>>, MinYear, " United ">>,
          <<<<1>>, MinYear, " United ">>,
          <<<<1, 2>>, MinYear - 1, " United ">>,
          <<<<1, 2>>, MinYear, "ab">>}

create_merge_edit_within(calls, caps) ==
    \E c \in calls :
        LET r == create_merge_edit_reply(Store, c[1], c[2][1], c[2][2], c[2][3],
                                         1, "merged in that year")
        IN  /\ within_caps_in(r.db, caps)
            /\ commit(r.db)
            /\ last' = Outcome("create_merge_edit", r.result, r.edit, << >>)
            /\ UNCHANGED <<links, cache, readers, writer, sessions, limiter>>

create_merge_edit_of(calls) ==
    create_merge_edit_within(calls, Caps(MaxNodes, MaxEras, MaxEvents + MaxTargets, MaxEdits, MaxCount))

create_merge_edit == create_merge_edit_of(Calls(MergeInputs))

\* ------------------------------------------------------------------ split
NewTeamInfo(name, tier) == [name |-> strip(name), tier |-> tier]

\* the field validators of NewTeamInfo, on the raw fields
NewTeamInfo_valid(name, tier) ==
    /\ tier \in {1, 2, 3}
    /\ truthy_str(name) /\ Len(strip(name)) >= 3
    /\ Len(name) <= 200

SplitEventRequest(source_node_id, split_year, new_teams, reason) ==
    [source_node_id |-> source_node_id, split_year |-> split_year,
     new_teams |-> [k \in 1..Len(new_teams) |->
                      NewTeamInfo(new_teams[k].name, new_teams[k].tier)],
     reason |-> strip(reason)]

\* the field validators of SplitEventRequest and of its team descriptors
SplitEventRequest_valid(source_node_id, split_year, new_teams, reason) ==
    /\ \A k \in 1..Len(new_teams) :
          NewTeamInfo_valid(new_teams[k].name, new_teams[k].tier)
    /\ Len(new_teams) >= 2 /\ Len(new_teams) <= 5
    /\ split_year >= MinYear /\ split_year <= current_year + 1
    /\ Len(strip(reason)) >= 10

\* "Create SPLIT lineage event"
split_event_mutant(node_id, new_node_id, split_year, name) ==
    [previous_node_id |-> new_node_id, next_node_id |-> node_id,
     event_year |-> split_year, event_type |-> "SPLIT",
     notes |-> <<"Split from source team into " \o name>>]
split_event(node_id, new_node_id, split_year, name) ==
    [previous_node_id |-> node_id, next_node_id |-> new_node_id,
     event_year |-> split_year, event_type |-> "SPLIT",
     notes |-> <<"Split from source team into " \o name>>]

\* EditService._apply_split: the session after the routine, and whether it
\* returned (ok) or raised
EditService_apply_split(db, request, user_id) ==
    LET node_id == request.source_node_id
        year == request.split_year
        n == Len(request.new_teams)
        base == Len(db.nodes)
    IN  IF node_id \notin 1..Len(db.nodes) THEN [ok |-> FALSE, db |-> db]
        ELSE [ok |-> TRUE,
              db |-> [db EXCEPT
                 !.nodes = [@ EXCEPT ![node_id].dissolution_year = year]
                              \o [k \in 1..n |-> TeamNode(year)],
                 !.eras = @ \o [k \in 1..n |->
                              TeamEra(base + k, year, request.new_teams[k].name,
                                      NoneStr, request.new_teams[k].tier,
                                      source_origin_of(user_id), TRUE)],
                 !.events = @ \o [k \in 1..n |->
                              split_event(node_id, base + k, year,
                                          request.new_teams[k].name)]]]

create_split_edit_reply(db, user_id, source_node_id, split_year, new_teams, reason) ==
    LET request == SplitEventRequest(source_node_id, split_year, new_teams, reason)
        edit == Edit(user_id, "SPLIT", None, source_node_id,
                     [split_year |-> request.split_year,
                      new_teams |-> request.new_teams],
                     request.reason)
        applied == EditService_apply_split(db, request, user_id)
        new_id == Len(db.edits) + 1
    IN  IF ~SplitEventRequest_valid(source_node_id, split_year, new_teams, reason)
        THEN Reply("RequestValidationError", db, None)
        ELSE IF source_node_id \notin 1..Len(db.nodes)
             THEN Reply("ValueError: not found", db, None)
        ELSE IF ~has_era(db.eras, source_node_id, split_year)
             THEN Reply("ValueError: not active", db, None)
        ELSE IF auto_approve(db.users[user_id].role)
             THEN IF applied.ok
                  THEN Reply("APPROVED",
                             add_edit(increment_approved(applied.db, user_id),
                                      approved_by(edit, user_id)),
                             new_id)
                  ELSE Reply("ValueError: not found", db, None)
        ELSE Reply("PENDING", add_edit(db, edit), new_id)

Alpha == [name |-> " Alpha ", tier |-> 2]
Beta == [name |-> "Beta", tier |-> 3]

\* the splits submitted: every existing node in every year into MaxTargets
\* well-formed teams, and one request for each way of being turned down
SplitInputs ==
    ((1..Len(nodes)) \X (MinYear..MaxYear)
        \X {[k \in 1..MaxTargets |-> IF k = 1 THEN Alpha ELSE Beta]})
    \cup {<<Len(nodes) + 1, MinYear, <<Alpha, Beta>> >>,
          <<1, MinYear, <<Alpha>> >>,
          <<1, MinYear - 1, <<Alpha, Beta>> >>,
          <<1, MinYear, <<Alpha, [name |-> "ab", tier |-> 2]>> >>,
          <<1, MinYear, <<Alpha, [name |-> "Beta", tier |-> 4]>> >>}

\* the calls made: api/v1/edits.py has routes for metadata and merge only, so
\* create_split_edit is reached without require_editor; the users that
\* require_editor would turn away send one well-formed request
SplitCalls ==
    LET editors == {u \in Users : can_edit(users[u])}
    IN  (editors \X SplitInputs) \cup
        ((Users \ editors) \X
            {<<1, MinYear, [k \in 1..MaxTargets |-> IF k = 1 THEN Alpha ELSE Beta]>>})

create_split_edit_within(calls, caps) ==
    \E c \in calls :
        LET r == create_split_edit_reply(Store, c[1], c[2][1], c[2][2], c[2][3],
                                         "split in that year")
        IN  /\ within_caps_in(r.db, caps)
            /\ commit(r.db)
            /\ last' = Outcome("create_split_edit", r.result, r.edit, << >>)
            /\ UNCHANGED <<links, cache, readers, writer, sessions, limiter>>

create_split_edit_of(calls) ==
    create_split_edit_within(calls, Caps(MaxNodes, MaxEras, MaxEvents + MaxTargets, MaxEdits, MaxCount))

create_split_edit == create_split_edit_of(SplitCalls)

\* ------------------------------------------------------ ModerationService
\* ModerationService._apply_metadata_edit: the session after the routine, and
\* whether it returned (ok) or raised
ModerationService_apply_metadata_edit_mutant(db, edit) ==
    LET era_id == edit.target_era_id
    IN  IF era_id \notin 1..Len(db.eras) THEN [ok |-> FALSE, db |-> db]
        ELSE [ok |-> TRUE,
              db |-> [db EXCEPT !.eras[era_id] =
                                    mark_manual_override(@, edit.user_id)]]
ModerationService_apply_metadata_edit(db, edit) ==
    LET era_id == edit.target_era_id
        r == set_era_fields(db.eras[era_id], edit.changes)
    IN  IF era_id \notin 1..Len(db.eras) THEN [ok |-> FALSE, db |-> db]
        ELSE IF edit.target_node_id # None /\
                edit.target_node_id \notin 1..Len(db.nodes)
             THEN [ok |-> FALSE, db |-> db]
        ELSE IF ~r.ok THEN [ok |-> FALSE, db |-> [db EXCEPT !.eras[era_id] = r.era]]
        ELSE [ok |-> TRUE,
              db |-> [db EXCEPT !.eras[era_id] =
                                    mark_manual_override(r.era, edit.user_id)]]

\* ModerationService._apply_merge_edit: it rebuilds the request and calls
\* EditService._apply_merge(session, request, user) without the fourth
\* positional argument validated_source_nodes, which has no default: the call
\* raises TypeError before the routine's body runs
ModerationService_apply_merge_edit(db, edit) == [ok |-> FALSE, db |-> db]

\* ModerationService._apply_split_edit
ModerationService_apply_split_edit(db, edit) ==
    EditService_apply_split(db,
        [source_node_id |-> edit.target_node_id,
         split_year |-> edit.changes.split_year,
         new_teams |-> edit.changes.new_teams,
         reason |-> edit.reason],
        edit.user_id)

\* "except Exception: await session.rollback()": the rows stay as committed
rollback_mutant(committed, session) == session
rollback(committed, session) == committed

\* the promotion rule applied after the counter is incremented
promote_mutant(db, user_id) ==
    IF db.users[user_id].role = "NEW_USER" /\
       db.users[user_id].approved_edits_count > PromotionThreshold
    THEN [db EXCEPT !.users[user_id].role = "TRUSTED_USER"]
    ELSE db
promote(db, user_id) ==
    IF db.users[user_id].role = "NEW_USER" /\
       db.users[user_id].approved_edits_count >= PromotionThreshold
    THEN [db EXCEPT !.users[user_id].role = "TRUSTED_USER"]
    ELSE db

review_edit_reply_mutant(db, edit_id, admin, approved, notes) ==
    LET edit == db.edits[edit_id]
        counted == increment_approved(db, edit.user_id)
    IN  Reply(IF approved THEN "approved" ELSE "rejected",
              [counted EXCEPT !.edits[edit_id] =
                  [edit EXCEPT !.status = IF approved THEN "APPROVED" ELSE "REJECTED",
                               !.reviewed_by = admin,
                               !.review_notes = IF truthy_str(notes) THEN notes
                                                ELSE "Edit rejected by moderator"]],
              edit_id)
review_edit_reply(db, edit_id, admin, approved, notes) ==
    LET edit == db.edits[edit_id]
        marked == [db EXCEPT !.edits[edit_id] =
                      [approved_by(edit, admin) EXCEPT !.review_notes = notes]]
        applied == CASE edit.edit_type = "METADATA" ->
                          ModerationService_apply_metadata_edit(marked, marked.edits[edit_id])
                     [] edit.edit_type = "MERGE" ->
                          ModerationService_apply_merge_edit(marked, marked.edits[edit_id])
                     [] OTHER ->
                          ModerationService_apply_split_edit(marked, marked.edits[edit_id])
        counted == increment_approved(applied.db, edit.user_id)
        promoted == promote(counted, edit.user_id)
    IN  IF approved
        THEN IF applied.ok
             THEN Reply(IF promoted = counted THEN "approved" ELSE "promoted",
                        promoted, edit_id)
             ELSE Reply("ValueError", rollback(db, applied.db), edit_id)
        ELSE Reply("rejected",
                   [db EXCEPT !.edits[edit_id] =
                       [edit EXCEPT !.status = "REJECTED", !.reviewed_by = admin,
                                    !.review_notes = IF truthy_str(notes) THEN notes
                                                     ELSE "Edit rejected by moderator"]],
                   edit_id)

is_admin(u) == u.role = "ADMIN"

review_edit_within(caps) ==
    \E edit_id \in 1..Len(edits), admin \in {u \in Users : is_admin(users[u])},
       approved \in BOOLEAN, notes \in {NoneStr, "checked"} :
        LET r == review_edit_reply(Store, edit_id, admin, approved, notes)
        IN  /\ within_caps_in(r.db, caps)
            /\ commit(r.db)
            /\ last' = Outcome("review_edit", r.result, r.edit, << >>)
            /\ UNCHANGED <<links, cache, readers, writer, sessions, limiter>>

review_edit_of(edit_cap, count_cap) ==
    review_edit_within(Caps(MaxNodes, MaxEras, MaxEvents + MaxTargets, edit_cap, count_cap))

review_edit == review_edit_of(MaxEdits, MaxCount)

\* review_edit called often enough for a submitter to pass the threshold
review_edit_to_promotion == review_edit_of(MaxSubmissions, MaxApprovals)

\* --------------------------------------------------------- LineageService
LineageEvent(previous_node_id, next_node_id, event_year, event_type, notes) ==
    [previous_node_id |-> previous_node_id, next_node_id |-> next_node_id,
     event_year |-> event_year, event_type |-> event_type, notes |-> notes]

\* LineageEvent.validate(): at least one endpoint, no self-loop, the year
\* within the lifespans of the nodes it names
LineageEvent_validate(db, event) ==
    /\ event.previous_node_id # None \/ event.next_node_id # None
    /\ event.previous_node_id # event.next_node_id
    /\ event.previous_node_id \in 1..Len(db.nodes)
          => event.event_year >= db.nodes[event.previous_node_id].founding_year
    /\ (event.next_node_id \in 1..Len(db.nodes) /\
        db.nodes[event.next_node_id].dissolution_year # None)
          => event.event_year <= db.nodes[event.next_node_id].dissolution_year

\* the check constraints of table lineage_event
lineage_event_constraints_mutant(event) ==
    event.previous_node_id # None \/ event.next_node_id # None
lineage_event_constraints(event) ==
    /\ event.previous_node_id # None \/ event.next_node_id # None
    /\ event.event_year >= MinYear

\* notes are kept as the parts a "|" separates, already stripped; << >> is None
incomplete_phrase(event_type) ==
    IF event_type = "MERGE" THEN "INCOMPLETE MERGE: add another predecessor"
    ELSE "INCOMPLETE SPLIT: add another successor"

\* p.strip().startswith("INCOMPLETE MERGE") / ("INCOMPLETE SPLIT"), on the
\* parts the model uses
starts_incomplete(part, event_type) ==
    part \in (IF event_type = "MERGE"
              THEN {"INCOMPLETE MERGE: add another predecessor",
                    "INCOMPLETE MERGE: one leg only"}
              ELSE {"INCOMPLETE SPLIT: add another successor",
                    "INCOMPLETE SPLIT: one leg only"})

\* "Remove any incomplete warning": the notes of a single leg
strip_incomplete_mutant(notes, event_type) == notes
strip_incomplete(notes, event_type) ==
    SelectSeq(notes, LAMBDA part : ~starts_incomplete(part, event_type))

\* "Remove incomplete warnings from all related events": the exact phrase only
remove_incomplete_phrase(notes, event_type) ==
    SelectSeq(notes, LAMBDA part : part # incomplete_phrase(event_type))

\* the events of the group the new event belongs to
related_events_mutant(evs, event) ==
    {i \in 1..Len(evs) :
        /\ evs[i].event_year = event.event_year
        /\ IF event.event_type = "MERGE"
           THEN evs[i].next_node_id = event.next_node_id
           ELSE evs[i].previous_node_id = event.previous_node_id}
related_events(evs, event) ==
    {i \in 1..Len(evs) :
        /\ evs[i].event_type = event.event_type
        /\ evs[i].event_year = event.event_year
        /\ IF event.event_type = "MERGE"
           THEN evs[i].next_node_id = event.next_node_id
           ELSE evs[i].previous_node_id = event.previous_node_id}

\* "Canonicalization: auto-downgrade single-leg MERGE/SPLIT to succession"
canonicalize(evs, event_id) ==
    LET event == evs[event_id]
        related == related_events(evs, event)
    IN  IF event.event_type \notin {"MERGE", "SPLIT"} THEN evs
        ELSE IF Cardinality(related) = 1
             THEN [evs EXCEPT ![event_id] =
                      [event EXCEPT !.event_type = "LEGAL_TRANSFER",
                                    !.notes = strip_incomplete(@, event.event_type)]]
        ELSE [i \in 1..Len(evs) |->
                 IF i \in related
                 THEN [evs[i] EXCEPT !.notes =
                                         remove_incomplete_phrase(@, event.event_type)]
                 ELSE evs[i]]

create_event_result(db, previous_id, next_id, year, event_type, notes) ==
    LET event == LineageEvent(previous_id, next_id, year, event_type, notes)
    IN  IF previous_id = None /\ next_id = None THEN "ValidationException"
        ELSE IF previous_id # None /\ previous_id \notin 1..Len(db.nodes)
             THEN "ValidationException"
        ELSE IF next_id # None /\ next_id \notin 1..Len(db.nodes)
             THEN "ValidationException"
        ELSE IF previous_id # None /\ year < db.nodes[previous_id].founding_year
             THEN "ValidationException"
        ELSE IF next_id # None /\ db.nodes[next_id].dissolution_year # None /\
                year > db.nodes[next_id].dissolution_year
             THEN "ValidationException"
        ELSE IF event_type = "MERGE" /\ next_id = None THEN "ValidationException"
        ELSE IF event_type = "SPLIT" /\ previous_id = None THEN "ValidationException"
        ELSE IF previous_id # None /\ next_id # None /\ previous_id = next_id
             THEN "ValidationException"
        ELSE IF ~LineageEvent_validate(db, event) THEN "ValidationException"
        ELSE IF ~lineage_event_constraints(event) THEN "IntegrityError"
        ELSE "ok"

EventTypes == {"LEGAL_TRANSFER", "SPIRITUAL_SUCCESSION", "MERGE", "SPLIT"}
NotesInputs == {<< >>}

\* the events submitted: every pair of endpoints among None and the nodes,
\* in every year a season can have, of every type, and one request for each
\* of a missing predecessor, a missing successor and a year before MinYear
EventInputs ==
    ((0..Len(nodes)) \X (0..Len(nodes)) \X (MinYear..MaxYear) \X EventTypes)
    \cup {<<Len(nodes) + 1, 1, MinYear, "LEGAL_TRANSFER">>,
          <<1, Len(nodes) + 1, MinYear, "LEGAL_TRANSFER">>,
          <<None, 1, MinYear - 1, "LEGAL_TRANSFER">>}

\* the events after an accepted call: the event inserted, then canonicalized
create_event_applied(evs, event) ==
    canonicalize(Append(evs, event), Len(evs) + 1)

\* create_event on the calls given, each a request with its notes, while
\* fewer than cap events exist
create_event_of(calls, cap) ==
    \E call \in calls :
        LET c == call[1]
            notes == call[2]
            r == create_event_result(Store, c[1], c[2], c[3], c[4], notes)
            event == LineageEvent(c[1], c[2], c[3], c[4], notes)
        IN  /\ (r = "ok") => Len(events) < cap
            /\ events' = IF r = "ok" THEN create_event_applied(events, event) ELSE events
            /\ last' = Outcome("create_event", r, None,
                               IF r = "ok" THEN <<event>> ELSE << >>)
            /\ cache' = IF r = "ok" THEN EmptyCache ELSE cache
            /\ UNCHANGED <<nodes, eras, edits, users, links, readers, writer, sessions, limiter>>

create_event == create_event_of(EventInputs \X NotesInputs, MaxEvents)

\* the notes of a leg: none, the warning, and another note that begins alike
LegNotes(event_type) ==
    {<< >>, <<incomplete_phrase(event_type)>>,
     <<"first leg", IF event_type = "MERGE" THEN "INCOMPLETE MERGE: one leg only"
                    ELSE "INCOMPLETE SPLIT: one leg only">>}

\* the legs submitted one at a time in the last year: MERGE legs from the
\* nodes a split has added into node 2, SPLIT legs out of node 2 to them
LegInputs ==
    UNION {{<<p, 2, MaxYear, "MERGE">>} \X LegNotes("MERGE") : p \in {3, 4}}
    \cup UNION {{<<2, n, MaxYear, "SPLIT">>} \X LegNotes("SPLIT") : n \in {3, 4}}

\* the events of a split and the legs after it
LegCap == MaxTargets + MaxLegs

create_leg == create_event_of(LegInputs, LegCap)

\* --------------------------------------------------------- SponsorService
TeamSponsorLink(era_id, brand_id, rank_order, prominence_percent) ==
    [era_id |-> era_id, brand_id |-> brand_id, rank_order |-> rank_order,
     prominence_percent |-> prominence_percent]

\* func.sum(prominence_percent) over the era's links, 0 when there is none
RECURSIVE prominence_sum(_, _)
prominence_sum(ls, era_id) ==
    IF ls = << >> THEN 0
    ELSE (IF Head(ls).era_id = era_id THEN Head(ls).prominence_percent ELSE 0)
         + prominence_sum(Tail(ls), era_id)

\* "Check if adding this would exceed 100% prominence"
would_exceed_mutant(current_total, prominence_percent) ==
    prominence_percent > MaxProminence
would_exceed(current_total, prominence_percent) ==
    current_total + prominence_percent > MaxProminence

link_sponsor_to_era_result(era_id, brand_id, rank_order, prominence_percent) ==
    IF era_id \notin 1..Len(eras) THEN "NodeNotFoundException"
    ELSE IF brand_id \notin BrandIds THEN "NodeNotFoundException"
    ELSE IF \E i \in 1..Len(links) :
                links[i].era_id = era_id /\ links[i].brand_id = brand_id
         THEN "ValidationException: brand"
    ELSE IF \E i \in 1..Len(links) :
                links[i].era_id = era_id /\ links[i].rank_order = rank_order
         THEN "ValidationException: rank"
    ELSE IF would_exceed(prominence_sum(links, era_id), prominence_percent)
         THEN "ValidationException: exceed"
    ELSE IF rank_order < 1 THEN "ValueError"
    ELSE IF prominence_percent <= 0 \/ prominence_percent > MaxProminence
         THEN "ValueError"
    ELSE "ok"

Prominences == {40, 60, 100}

\* the links submitted: every era with every brand at every rank and share,
\* and one request for each of a missing era, a missing brand, a rank below
\* one and a share of nothing
LinkInputs ==
    ((1..Len(eras)) \X BrandIds \X (1..MaxRank) \X Prominences)
    \cup {<<Len(eras) + 1, 1, 1, 40>>, <<1, MaxBrands + 1, 1, 40>>,
          <<1, 1, 0, 40>>, <<1, 1, 1, 0>>}

link_sponsor_to_era ==
    \E c \in LinkInputs :
        LET r == link_sponsor_to_era_result(c[1], c[2], c[3], c[4])
        IN  /\ (r = "ok") => Len(links) < MaxLinks
            /\ links' = IF r = "ok"
                        THEN Append(links, TeamSponsorLink(c[1], c[2], c[3], c[4]))
                        ELSE links
            /\ last' = Outcome("link_sponsor_to_era", r, None, << >>)
            /\ cache' = IF r = "ok" THEN EmptyCache ELSE cache
            /\ UNCHANGED <<nodes, eras, events, edits, users, readers, writer, sessions, limiter>>

\* ----------------------------------------------------------- GraphBuilder
\* Python None of an Optional[List[int]] argument
NoneList == <<None>>

\* the order of Python's str comparison on the names the model uses
name_rank(name) ==
    CASE name = "" -> 0
      [] name = "Alpha" -> 1
      [] name = "Beta" -> 2
      [] name = "Ineos" -> 3
      [] name = "Sky" -> 4
      [] name = "United" -> 5
      [] OTHER -> 6

\* the order of Python's str comparison on the names of the event types
type_rank(event_type) ==
    CASE event_type = "LEGAL_TRANSFER" -> 1
      [] event_type = "MERGE" -> 2
      [] event_type = "SPIRITUAL_SUCCESSION" -> 3
      [] OTHER -> 4

\* Python's comparison of two key tuples of the same length
RECURSIVE tuple_less(_, _)
tuple_less(a, b) ==
    IF a = << >> THEN FALSE
    ELSE IF Head(a) # Head(b) THEN Head(a) < Head(b)
    ELSE tuple_less(Tail(a), Tail(b))

\* one item put into a sorted list of <<key, item>> pairs behind every pair
\* whose key is not greater
RECURSIVE insert_sorted(_, _)
insert_sorted(pair, sorted_pairs) ==
    IF sorted_pairs = << >> THEN <<pair>>
    ELSE IF tuple_less(pair[1], Head(sorted_pairs)[1])
         THEN <<pair>> \o sorted_pairs
    ELSE <<Head(sorted_pairs)>> \o insert_sorted(pair, Tail(sorted_pairs))

\* sorted(items, key=...): stable, on a list of <<key, item>> pairs
RECURSIVE sorted(_)
sorted(pairs) ==
    IF pairs = << >> THEN << >>
    ELSE insert_sorted(pairs[Len(pairs)], sorted(SubSeq(pairs, 1, Len(pairs) - 1)))

items_of(pairs) == [i \in 1..Len(pairs) |-> pairs[i][2]]

\* GraphBuilder.build_jersey_composition: the era's links by rank_order
sponsor_key(link) == <<link.rank_order>>

build_jersey_composition(era_links) ==
    LET entry(l) == [brand |-> l.brand_id, prominence |-> l.prominence_percent]
    IN  items_of(sorted([i \in 1..Len(era_links) |->
                            <<sponsor_key(era_links[i]), entry(era_links[i])>>]))

\* "Sort eras by year then name for deterministic ordering"
era_key(e) == <<e.year, name_rank(e.name)>>

\* "Deterministic node ordering: founding_year then id"
node_key(n) == <<n.founding_year, n.id>>

\* "Deterministic link ordering: year, source, target, type"
link_key(l) == <<l.year, l.source, l.target, type_rank(l.type)>>

\* GraphBuilder.build_nodes on the teams as the query returned them: a list
\* of [node, eras] where eras lists [era, links] in the order loaded
build_nodes(teams) ==
    LET era_dict(e) == [year |-> e.era.season_year, name |-> e.era.registered_name,
                        tier |-> e.era.tier_level,
                        sponsors |-> build_jersey_composition(e.links)]
        node_dict(t) ==
            [id |-> t.id, founding_year |-> t.node.founding_year,
             dissolution_year |-> t.node.dissolution_year,
             eras |-> items_of(sorted([i \in 1..Len(t.eras) |->
                         <<era_key(era_dict(t.eras[i])), era_dict(t.eras[i])>>]))]
    IN  items_of(sorted([i \in 1..Len(teams) |->
                            <<node_key(node_dict(teams[i])), node_dict(teams[i])>>]))

\* GraphBuilder.build_links on the events as the query returned them
build_links(evs) ==
    LET both == SelectSeq(evs, LAMBDA ev : ev.previous_node_id # None /\
                                           ev.next_node_id # None)
        link_dict(ev) == [source |-> ev.previous_node_id, target |-> ev.next_node_id,
                          year |-> ev.event_year, type |-> ev.event_type]
    IN  items_of(sorted([i \in 1..Len(both) |->
                            <<link_key(link_dict(both[i])), link_dict(both[i])>>]))

\* -------------------------------------------------------- TimelineService
\* settings.TIMELINE_CACHE_ENABLED, switched on
TIMELINE_CACHE_ENABLED == TRUE

GraphArgs(start_year, end_year, include_dissolved, tier_filter) ==
    [start_year |-> start_year, end_year |-> end_year,
     include_dissolved |-> include_dissolved, tier_filter |-> tier_filter]

\* "Cache key based on query parameters": a filter that is None or empty
\* contributes the same part
cache_key(args) ==
    <<args.start_year, args.end_year, args.include_dissolved,
      IF args.tier_filter = NoneList THEN << >> ELSE args.tier_filter>>

\* the order of the primary keys
RECURSIVE by_id(_)
by_id(S) ==
    IF S = {} THEN << >>
    ELSE LET m == CHOOSE x \in S : \A y \in S : x <= y
         IN  <<m>> \o by_id(S \ {m})

reversed(seq) == [i \in 1..Len(seq) |-> seq[Len(seq) + 1 - i]]

\* the lists a set of row ids can be returned as: every arrangement of up to
\* MaxShuffle rows, and of more rows the ascending and the descending one (a
\* stable sort gives two results for some pair of arrangements exactly when
\* two different items share a key, and then it does for these two)
Orders(S) ==
    IF Cardinality(S) <= MaxShuffle
    THEN {f \in [1..Cardinality(S) -> S] : \A i, j \in 1..Cardinality(S) :
                                                 f[i] = f[j] => i = j}
    ELSE {by_id(S), reversed(by_id(S))}

store_order(db, ls) ==
    [teams |-> by_id(1..Len(db.nodes)), eras |-> by_id(1..Len(db.eras)),
     links |-> by_id(1..Len(ls)), events |-> by_id(1..Len(db.events))]

\* "filter dissolved", with the include_dissolved flag forgotten
visible_mutant(node, args) ==
    \/ node.dissolution_year = None
    \/ node.dissolution_year > args.end_year

\* "filter dissolved"
visible(node, args) ==
    \/ args.include_dissolved
    \/ node.dissolution_year = None
    \/ node.dissolution_year > args.end_year

\* "filter eras by year and tier"
era_selected(era, args) ==
    /\ args.start_year <= era.season_year /\ era.season_year <= args.end_year
    /\ \/ args.tier_filter = NoneList
       \/ \E k \in 1..Len(args.tier_filter) : args.tier_filter[k] = era.tier_level

\* "lineage events within range"
event_selected(ev, args) ==
    args.start_year <= ev.event_year /\ ev.event_year <= args.end_year

\* the projection built from the rows, the rows taken in the given orders
project(db, ls, args, order) ==
    LET era_links(e) ==
            LET ids == SelectSeq(order.links, LAMBDA l : ls[l].era_id = e)
            IN  [i \in 1..Len(ids) |-> ls[ids[i]]]
        node_eras(n) ==
            LET ids == SelectSeq(order.eras,
                                 LAMBDA e : db.eras[e].node_id = n /\
                                            era_selected(db.eras[e], args))
            IN  [i \in 1..Len(ids) |-> [era |-> db.eras[ids[i]],
                                         links |-> era_links(ids[i])]]
        team_ids == SelectSeq(order.teams, LAMBDA n : visible(db.nodes[n], args))
        teams == [i \in 1..Len(team_ids) |->
                    [id |-> team_ids[i], node |-> db.nodes[team_ids[i]],
                     eras |-> node_eras(team_ids[i])]]
        event_ids == SelectSeq(order.events,
                               LAMBDA ev : event_selected(db.events[ev], args))
        evs == [i \in 1..Len(event_ids) |-> db.events[event_ids[i]]]
        ns == build_nodes(teams)
        lks == build_links(evs)
    IN  [nodes |-> ns, links |-> lks,
         meta |-> [year_range |-> <<args.start_year, args.end_year>>,
                   node_count |-> Len(ns), link_count |-> Len(lks)]]

\* the orders a query without ORDER BY can return the rows in
AllOrders(db, ls) ==
    [teams : Orders(1..Len(db.nodes)), eras : Orders(1..Len(db.eras)),
     links : Orders(1..Len(ls)), events : Orders(1..Len(db.events))]

\* the projection of the committed rows, taken in the order of their keys
projection(args) == project(Store, links, args, store_order(Store, links))

\* "Store in cache"
cache_put(c, key, value) ==
    [k \in DOMAIN c \cup {key} |-> IF k = key THEN value ELSE c[k]]

\* cached and cached[0] > now, for an entry that has or has not expired
cache_hit(c, key, expired) ==
    TIMELINE_CACHE_ENABLED /\ key \in DOMAIN c /\ ~expired

\* the calls made: the whole range with dissolved teams, and one season of
\* the first tier without them
GraphInputs ==
    {GraphArgs(MinYear, MaxYear, TRUE, NoneList),
     GraphArgs(MinYear, MinYear, FALSE, <<1>>)}

get_graph_data_of(inputs) ==
    \E args \in inputs, expired \in BOOLEAN, order \in AllOrders(Store, links) :
        LET key == cache_key(args)
            hit == cache_hit(cache, key, expired)
            result == IF hit THEN cache[key] ELSE project(Store, links, args, order)
        IN  /\ cache' = IF hit \/ ~TIMELINE_CACHE_ENABLED THEN cache
                        ELSE cache_put(cache, key, result)
            /\ last' = Outcome("get_graph_data", IF hit THEN "hit" ELSE "miss", None,
                               <<args, result>>)
            /\ UNCHANGED <<nodes, eras, events, edits, users, links, readers, writer, sessions, limiter>>

get_graph_data == get_graph_data_of(GraphInputs)

\* the whole range asked for without a tier filter, with an empty one and with
\* the first tier
TierInputs ==
    {GraphArgs(MinYear, MaxYear, TRUE, f) : f \in {NoneList, << >>, <<1>>}}

\* ------------------------------------------- concurrent readers and a writer
\* Each coroutine runs from one await to the next; the steps below are the
\* stretches between the awaits of get_graph_data, create_era, create_event
\* and link_sponsor_to_era.  writer.commits counts the transactions that
\* have committed; a reader notes the count it found when it began.
commits == writer.commits

Writer(pc, op, pending, n) == [pc |-> pc, op |-> op, pending |-> pending, commits |-> n]

writer_free == writer.pc \in {"idle", "done"}

\* get_graph_data up to the first query: the key and the cache lookup
reader_begin(r) ==
    \E args \in GraphInputs, expired \in BOOLEAN :
        LET key == cache_key(args)
            hit == cache_hit(cache, key, expired)
        IN  /\ readers[r].pc = "idle"
            /\ readers' = [readers EXCEPT ![r] =
                              IF hit THEN IdleReader
                              ELSE [pc |-> "nodes", args |-> args, began |-> commits]]
            /\ last' = IF hit
                       THEN Outcome("get_graph_data", "hit", None,
                                    <<args, cache[key], commits>>)
                       ELSE last
            /\ UNCHANGED <<nodes, eras, events, edits, users, links, cache, writer, sessions, limiter>>

\* the nodes query with its eras and sponsor links, on the committed rows
reader_query_nodes(r) ==
    /\ readers[r].pc = "nodes"
    /\ readers' = [readers EXCEPT ![r] =
                      [pc |-> "events", args |-> @.args, began |-> @.began,
                       teams |-> [nodes |-> nodes, eras |-> eras, links |-> links]]]
    /\ UNCHANGED <<nodes, eras, events, edits, users, links, last, cache, writer, sessions, limiter>>

\* the events query, on the committed rows
reader_query_events(r) ==
    /\ readers[r].pc = "events"
    /\ readers' = [readers EXCEPT ![r] =
                      [pc |-> "build", args |-> @.args, began |-> @.began,
                       teams |-> @.teams, events |-> events]]
    /\ UNCHANGED <<nodes, eras, events, edits, users, links, last, cache, writer, sessions, limiter>>

\* build_nodes, build_links, meta, "Store in cache", return
reader_finish(r) ==
    LET me == readers[r]
        db == [nodes |-> me.teams.nodes, eras |-> me.teams.eras, events |-> me.events]
    IN  /\ me.pc = "build"
        /\ \E order \in AllOrders(db, me.teams.links) :
            LET result == project(db, me.teams.links, me.args, order)
            IN
            /\ cache' = IF TIMELINE_CACHE_ENABLED
                        THEN cache_put(cache, cache_key(me.args), result) ELSE cache
            /\ readers' = [readers EXCEPT ![r] = IdleReader]
            /\ last' = Outcome("get_graph_data", "miss", None,
                               <<me.args, result, me.began>>)
            /\ UNCHANGED <<nodes, eras, events, edits, users, links, writer, sessions, limiter>>

\* the requests of the writer: one that is accepted and one that is refused
\* for each operation
WriterEraInputs == {<<1, MaxYear, <<" Sky ", NoneStr, 1>>>>, <<1, MinYear, <<" Sky ", NoneStr, 1>>>>}
WriterEventInputs == {<<1, 2, MaxYear, "MERGE">>, <<1, 2, MaxYear, "LEGAL_TRANSFER">>, <<1, 1, MaxYear, "MERGE">>}
WriterLinkInputs == {<<1, 1, 1, 60>>, <<1, 1, 0, 40>>}

\* create_era up to and including session.commit()
create_era_commit ==
    \E c \in WriterEraInputs :
        LET r == create_era_result(c[1], c[2], c[3][1], c[3][2], c[3][3])
        IN  /\ writer_free /\ commits < MaxWrites
            /\ (r = "ok") => Len(eras) < MaxEras
            /\ eras' = IF r = "ok"
                       THEN Append(eras, TeamEra(c[1], c[2], c[3][1], c[3][2], c[3][3],
                                                 "manual", FALSE))
                       ELSE eras
            /\ writer' = IF r = "ok"
                         THEN Writer("era_committed", "create_era", <<c[1], c[2]>>, commits + 1)
                         ELSE writer
            /\ last' = IF r = "ok" THEN last
                       ELSE Outcome("create_era", r, None,
                                    IF r \in {"DuplicateEraException", "IntegrityError"}
                                    THEN <<c[1], c[2]>> ELSE << >>)
            /\ UNCHANGED <<nodes, events, edits, users, links, cache, readers, sessions, limiter>>

\* "Invalidate timeline cache after data change", refresh, return
create_era_invalidate ==
    /\ writer.pc = "era_committed"
    /\ cache' = EmptyCache
    /\ writer' = Writer("done", writer.op, << >>, commits)
    /\ last' = Outcome("create_era", "ok", None, writer.pending)
    /\ UNCHANGED <<nodes, eras, events, edits, users, links, readers, sessions, limiter>>

\* create_event up to and including the first self.db.commit()
create_event_commit ==
    \E c \in WriterEventInputs, notes \in NotesInputs :
        LET r == create_event_result(Store, c[1], c[2], c[3], c[4], notes)
        IN  /\ writer_free /\ commits < MaxWrites
            /\ (r = "ok") => Len(events) < MaxEvents
            /\ events' = IF r = "ok"
                         THEN Append(events, LineageEvent(c[1], c[2], c[3], c[4], notes))
                         ELSE events
            /\ writer' = IF r = "ok"
                         THEN Writer("event_committed", "create_event", Len(events) + 1, commits + 1)
                         ELSE writer
            /\ last' = IF r = "ok" THEN last ELSE Outcome("create_event", r, None, << >>)
            /\ UNCHANGED <<nodes, eras, edits, users, links, cache, readers, sessions, limiter>>

\* "Invalidate timeline cache after data change", refresh
create_event_invalidate ==
    /\ writer.pc = "event_committed"
    /\ cache' = EmptyCache
    /\ writer' = Writer("event_invalidated", writer.op, writer.pending, commits)
    /\ UNCHANGED <<nodes, eras, events, edits, users, links, last, readers, sessions, limiter>>

\* the canonicalization pass with its own commit, return
create_event_canonicalize ==
    /\ writer.pc = "event_invalidated"
    /\ events' = canonicalize(events, writer.pending)
    /\ writer' = Writer("done", writer.op, << >>,
                        IF events' = events THEN commits ELSE commits + 1)
    /\ last' = Outcome("create_event", "ok", None, << >>)
    /\ UNCHANGED <<nodes, eras, edits, users, links, cache, readers, sessions, limiter>>

\* link_sponsor_to_era: the checks, session.flush(), the invalidation, return;
\* the row is in the writer's open transaction
link_sponsor_to_era_flush ==
    \E c \in WriterLinkInputs :
        LET r == link_sponsor_to_era_result(c[1], c[2], c[3], c[4])
        IN  /\ writer_free /\ commits < MaxWrites
            /\ (r = "ok") => Len(links) < MaxLinks
            /\ cache' = IF r = "ok" THEN EmptyCache ELSE cache
            /\ writer' = IF r = "ok"
                         THEN Writer("link_flushed", "link_sponsor_to_era",
                                     TeamSponsorLink(c[1], c[2], c[3], c[4]), commits)
                         ELSE writer
            /\ last' = Outcome("link_sponsor_to_era", r, None, << >>)
            /\ UNCHANGED <<nodes, eras, events, edits, users, links, readers, sessions, limiter>>

\* --------------------------- link_sponsor_to_era in concurrent sessions
\* Each caller has its own session (async_session_maker) and so its own
\* transaction, at the engine's default isolation: a query sees the rows
\* committed so far.  session.flush() sends the INSERT; the unique indexes
\* uq_era_brand and uq_era_rank make it wait while another open transaction
\* holds a row with the same key and fail with IntegrityError once such a row
\* is committed.  No constraint covers the sum of prominence_percent.
SessionLinkInputs == {1} \X BrandIds \X (1..MaxRank) \X {40, 60}

same_key(a, b) ==
    a.era_id = b.era_id /\ (a.brand_id = b.brand_id \/ a.rank_order = b.rank_order)

\* the queries of link_sponsor_to_era, up to the construction of the link
session_check(s) ==
    \E c \in SessionLinkInputs :
        LET r == link_sponsor_to_era_result(c[1], c[2], c[3], c[4])
        IN  /\ sessions[s].pc = "idle"
            /\ sessions' = [sessions EXCEPT ![s] =
                               IF r = "ok"
                               THEN [pc |-> "checked",
                                     row |-> TeamSponsorLink(c[1], c[2], c[3], c[4])]
                               ELSE IdleSession]
            /\ last' = IF r = "ok" THEN last
                       ELSE Outcome("link_sponsor_to_era", r, None, <<s>>)
            /\ UNCHANGED <<nodes, eras, events, edits, users, links, cache, readers,
                           writer, limiter>>

\* session.add(link), await session.flush(), invalidate_cache(), return
session_flush(s) ==
    LET row == sessions[s].row
        taken == \E i \in 1..Len(links) : same_key(links[i], row)
        held == \E t \in Sessions \ {s} :
                    sessions[t].pc = "flushed" /\ same_key(sessions[t].row, row)
    IN  /\ sessions[s].pc = "checked"
        /\ ~held
        /\ sessions' = [sessions EXCEPT ![s] =
                           IF taken THEN IdleSession
                           ELSE [pc |-> "flushed", row |-> row]]
        /\ cache' = IF taken THEN cache ELSE EmptyCache
        /\ last' = Outcome("link_sponsor_to_era",
                           IF taken THEN "IntegrityError" ELSE "ok", None, <<s>>)
        /\ UNCHANGED <<nodes, eras, events, edits, users, links, readers, writer, limiter>>

\* the caller's session.commit()
session_commit(s) ==
    /\ sessions[s].pc = "flushed"
    /\ Len(links) < MaxLinks
    /\ links' = Append(links, sessions[s].row)
    /\ sessions' = [sessions EXCEPT ![s] = IdleSession]
    /\ UNCHANGED <<nodes, eras, events, edits, users, last, cache, readers, writer, limiter>>

\* ------------------------------------- create_event in concurrent sessions
\* Each create_event call runs in its own session.  The insert is committed
\* (line 61), then the cache is emptied, the event refreshed and the group
\* queried on the rows committed by then (69-76 / 101-108), and the outcome of
\* the pass is committed in a further transaction (85 / 98 / 116 / 128).  The
\* pass writes what it computed from the rows it read; the UPDATE carries only
\* the attributes it assigned.
SessionLegInputs ==
    {<<p, 2, MaxYear, "MERGE">> : p \in {None, 1}} \X LegNotes("MERGE")

session_free(s) == sessions[s].pc \in {"idle", "event_done"}

\* create_event up to and including the first self.db.commit()
session_event_commit(s) ==
    \E call \in SessionLegInputs :
        LET c == call[1]
            r == create_event_result(Store, c[1], c[2], c[3], c[4], call[2])
            leg == LineageEvent(c[1], c[2], c[3], c[4], call[2])
        IN  /\ session_free(s)
            /\ (r = "ok") => Len(events) < MaxLegs
            /\ events' = IF r = "ok" THEN Append(events, leg) ELSE events
            /\ sessions' = [sessions EXCEPT ![s] =
                               IF r = "ok"
                               THEN [pc |-> "event_committed", leg |-> leg,
                                     id |-> Len(events) + 1]
                               ELSE @]
            /\ last' = IF r = "ok" THEN last
                       ELSE Outcome("create_event", r, None, <<s>>)
            /\ UNCHANGED <<nodes, eras, edits, users, links, cache, readers, writer, limiter>>

\* invalidate_cache(), refresh(event) and the query of the group
session_event_query(s) ==
    /\ sessions[s].pc = "event_committed"
    /\ cache' = EmptyCache
    /\ sessions' = [sessions EXCEPT ![s] =
                       [pc |-> "event_queried", leg |-> @.leg, id |-> @.id,
                        related |-> related_events(events, @.leg),
                        rows |-> events]]
    /\ UNCHANGED <<nodes, eras, events, edits, users, links, last, readers, writer, limiter>>

\* the rows after the pass has written what it decided on the rows it read
session_canonicalized(evs, id, related, rows) ==
    LET event_type == rows[id].event_type
    IN  IF Cardinality(related) = 1
        THEN [evs EXCEPT ![id] =
                 [@ EXCEPT !.event_type = "LEGAL_TRANSFER",
                           !.notes = IF strip_incomplete(rows[id].notes, event_type) # rows[id].notes
                                     THEN strip_incomplete(rows[id].notes, event_type)
                                     ELSE @]]
        ELSE [i \in 1..Len(evs) |->
                 IF i \in related /\
                    remove_incomplete_phrase(rows[i].notes, event_type) # rows[i].notes
                 THEN [evs[i] EXCEPT !.notes =
                                         remove_incomplete_phrase(rows[i].notes, event_type)]
                 ELSE evs[i]]

\* the downgrade or the removal of the warnings, its commit, return
session_event_canonicalize(s) ==
    /\ sessions[s].pc = "event_queried"
    /\ events' = session_canonicalized(events, sessions[s].id, sessions[s].related,
                                       sessions[s].rows)
    /\ sessions' = [sessions EXCEPT ![s] =
                       [pc |-> "event_done", leg |-> @.leg, id |-> @.id]]
    /\ last' = Outcome("create_event", "ok", None, <<s>>)
    /\ UNCHANGED <<nodes, eras, edits, users, links, cache, readers, writer, limiter>>

\* -------------------------------------- review_edit in concurrent sessions
\* An approval is two transactions: the apply routine ends in
\* `await session.commit()`, which also stores the status set on the Edit;
\* then `session.get(User, ...)` loads the submitter, the counter is
\* incremented on the loaded object and review_edit commits.  The UPDATE
\* writes the value computed in Python from the counter that was read; no
\* row lock is taken (no with_for_update) and User has no version column.
session_review_apply(s) ==
    \E edit_id \in 1..Len(edits), admin \in {u \in Users : is_admin(users[u])} :
        LET edit == edits[edit_id]
            marked == [Store EXCEPT !.edits[edit_id] =
                          [approved_by(edit, admin) EXCEPT !.review_notes = NoneStr]]
            applied == CASE edit.edit_type = "METADATA" ->
                              ModerationService_apply_metadata_edit(marked, marked.edits[edit_id])
                         [] edit.edit_type = "MERGE" ->
                              ModerationService_apply_merge_edit(marked, marked.edits[edit_id])
                         [] OTHER ->
                              ModerationService_apply_split_edit(marked, marked.edits[edit_id])
        IN  /\ sessions[s].pc = "idle"
            /\ within_caps_of(applied.db, MaxSessions, MaxCount)
            /\ IF applied.ok
               THEN /\ commit(applied.db)
                    /\ sessions' = [sessions EXCEPT ![s] =
                                       [pc |-> "review_applied", edit |-> edit_id,
                                        user |-> edit.user_id,
                                        count |-> users[edit.user_id].approved_edits_count,
                                        role |-> users[edit.user_id].role]]
                    /\ last' = last
               ELSE /\ commit(rollback(Store, applied.db))
                    /\ sessions' = sessions
                    /\ last' = Outcome("review_edit", "ValueError", edit_id, <<s>>)
            /\ UNCHANGED <<links, cache, readers, writer, limiter>>

\* the counter and role the UPDATE of review_edit's commit writes
reviewed_user(row, count, role) ==
    [row EXCEPT !.approved_edits_count = count + 1,
                !.role = IF role = "NEW_USER" /\ count + 1 >= PromotionThreshold
                         THEN "TRUSTED_USER" ELSE @]

\* the increment, the promotion rule, session.commit(), return
session_review_commit(s) ==
    LET u == sessions[s].user
        row == reviewed_user(users[u], sessions[s].count, sessions[s].role)
    IN  /\ sessions[s].pc = "review_applied"
        /\ row.approved_edits_count <= MaxCount
        /\ users' = [users EXCEPT ![u] = row]
        /\ sessions' = [sessions EXCEPT ![s] = IdleSession]
        /\ last' = Outcome("review_edit",
                           IF row.role # sessions[s].role THEN "promoted" ELSE "approved",
                           sessions[s].edit, <<s>>)
        /\ UNCHANGED <<nodes, eras, events, edits, links, cache, readers, writer, limiter>>

\* ------------------------------------- the trusted path, commit by commit
\* EditService._apply_metadata_changes, _apply_merge and _apply_split each end
\* in `await session.commit()`; the create routine then increments the
\* counter, adds the Edit and commits again.  A trusted edit is therefore two
\* transactions: `apply` is the routine up to and including the first commit,
\* `record` the rest.  writer.pending holds the Edit the coroutine has built
\* and the counter its User object holds (expire_on_commit=False: the object
\* is not reloaded after the first commit).
TrustedUsers == {u \in Users : can_edit(users[u]) /\ auto_approve(users[u].role)}

TrustedMetadataInputs ==
    {<<1, <<" Ineos ", NoneStr, None, "renamed in 1900">> >>,
     <<2, <<NoneStr, "IGD", 2, "renamed in 1900">> >>}

TrustedMergeInputs == {<<<<1, 2>>, MinYear, " United ">>, <<<<1, 2>>, MaxYear, " United ">>}

TrustedSplitInputs ==
    {<<n, y, [k \in 1..MaxTargets |-> IF k = 1 THEN Alpha ELSE Beta]>> :
        n \in 1..2, y \in MinYear..MaxYear}

\* the first transaction of an auto-approved edit whose reply is `r`
trusted_apply(op, r) ==
    /\ writer_free
    /\ r.result = "APPROVED"
    /\ within_caps_of(r.db, MaxEdits + MaxWrites, MaxCount)
    /\ nodes' = r.db.nodes
    /\ eras' = r.db.eras
    /\ events' = r.db.events
    /\ writer' = Writer("applied", op,
                         <<r.db.edits[Len(r.db.edits)],
                           users[r.db.edits[Len(r.db.edits)].user_id].approved_edits_count>>,
                         commits + 1)
    /\ UNCHANGED <<edits, users, links, last, cache, readers, sessions, limiter>>

\* the second transaction: "Increment approved edits count", session.add(edit),
\* session.commit()
trusted_record(op) ==
    /\ writer.pc = "applied" /\ writer.op = op
    /\ edits' = Append(edits, writer.pending[1])
    /\ users' = [users EXCEPT ![writer.pending[1].user_id].approved_edits_count =
                                  writer.pending[2] + 1]
    /\ writer' = Writer("done", op, << >>, commits + 1)
    /\ last' = Outcome(op, "APPROVED", Len(edits) + 1, << >>)
    /\ UNCHANGED <<nodes, eras, events, links, cache, readers, sessions, limiter>>

create_metadata_edit_apply ==
    \E u \in TrustedUsers, c \in TrustedMetadataInputs :
        trusted_apply("create_metadata_edit",
            create_metadata_edit_reply(Store, u,
                EditMetadataRequest(c[1], c[2][1], c[2][2], c[2][3], c[2][4])))

create_metadata_edit_record == trusted_record("create_metadata_edit")

create_merge_edit_apply ==
    \E u \in TrustedUsers, c \in TrustedMergeInputs :
        trusted_apply("create_merge_edit",
            create_merge_edit_reply(Store, u, c[1], c[2], c[3], 1,
                                    "merged in that year"))

create_merge_edit_record == trusted_record("create_merge_edit")

create_split_edit_apply ==
    \E u \in TrustedUsers, c \in TrustedSplitInputs :
        trusted_apply("create_split_edit",
            create_split_edit_reply(Store, u, c[1], c[2], c[3],
                                    "split in that year"))

create_split_edit_record == trusted_record("create_split_edit")


\* the commit of the transaction the link was flushed in
link_sponsor_to_era_commit ==
    /\ writer.pc = "link_flushed"
    /\ links' = Append(links, writer.pending)
    /\ writer' = Writer("done", writer.op, << >>, commits + 1)
    /\ UNCHANGED <<nodes, eras, events, edits, users, last, cache, readers, sessions, limiter>>


\* ------------------------------------------------------- ScraperService
\* the year upsert_scraped_data writes into the node and the era it creates
ScrapedYear == 2024

ScrapedTeamData(source, team_name, uci_code, tier) ==
    [source |-> source, team_name |-> team_name, uci_code |-> uci_code,
     tier |-> tier]

\* tier_map.get(data.tier) behind "if data.tier"
tier_map(tier) ==
    CASE tier = "WT" -> 1
      [] tier = "PT" -> 2
      [] tier = "CT" -> 3
      [] OTHER -> None

\* the check of team_name, then the validators of the two new rows
upsert_scraped_data_result(data) ==
    IF ~truthy_str(data.team_name) THEN "ValueError"
    ELSE IF ~validate_founding_year(ScrapedYear) THEN "ValueError"
    ELSE IF ~validate_registered_name(data.team_name) THEN "ValueError"
    ELSE IF ~validate_uci_code(data.uci_code) THEN "ValueError"
    ELSE IF ~validate_tier_level(tier_map(data.tier)) THEN "ValueError"
    ELSE "ok"

\* the era table after the upsert: always one new row for the new node
upserted_eras_mutant(es, node_id, data) ==
    LET same == {i \in 1..Len(es) : es[i].registered_name = strip(data.team_name)}
    IN  IF same = {} THEN Append(es, TeamEra(node_id, ScrapedYear, data.team_name, data.uci_code, tier_map(data.tier), data.source, FALSE))
        ELSE [i \in 1..Len(es) |->
                IF i \in same
                THEN TeamEra(es[i].node_id, es[i].season_year, data.team_name, data.uci_code, tier_map(data.tier), data.source, FALSE)
                ELSE es[i]]
upserted_eras(es, node_id, data) ==
    Append(es, TeamEra(node_id, ScrapedYear, data.team_name, data.uci_code,
                       tier_map(data.tier), data.source, FALSE))

ScrapedInputs ==
    {ScrapedTeamData("pcs", " Ineos ", "IGD", "WT"),
     ScrapedTeamData("pcs", " Sky ", NoneStr, "XX"),
     ScrapedTeamData("pcs", " Sky ", NoneStr, NoneStr),
     ScrapedTeamData("pcs", " Sky ", "sky", "CT"),
     ScrapedTeamData("pcs", "   ", NoneStr, "PT"),
     ScrapedTeamData("pcs", "", NoneStr, "PT")}

upsert_scraped_data ==
    \E data \in ScrapedInputs :
        LET r == upsert_scraped_data_result(data)
        IN  /\ (r = "ok") => (Len(nodes) < MaxNodes /\ Len(eras) < MaxEras)
            /\ nodes' = IF r = "ok" THEN Append(nodes, TeamNode(ScrapedYear))
                        ELSE nodes
            /\ eras' = IF r = "ok" THEN upserted_eras(eras, Len(nodes) + 1, data)
                       ELSE eras
            /\ last' = Outcome("upsert_scraped_data", r, None,
                               <<data.source, data.team_name, data.uci_code, data.tier>>)
            /\ UNCHANGED <<events, edits, users, links, cache, readers, writer, sessions, limiter>>


\* ------------------------------------------------------------ RateLimiter
\* time passes
clock_tick ==
    /\ limiter.now < MaxClock
    /\ limiter' = [limiter EXCEPT !.now = @ + 1]
    /\ UNCHANGED <<nodes, eras, events, edits, users, links, last, cache, readers, writer, sessions>>

\* wait_if_needed(domain) is called: the coroutine reaches "async with"
wait_if_needed_call(c, domain) ==
    /\ limiter.callers[c].pc = "idle"
    /\ limiter' = [limiter EXCEPT !.callers[c] = [pc |-> "acquiring", domain |-> domain]]
    /\ UNCHANGED <<nodes, eras, events, edits, users, links, last, cache, readers, writer, sessions>>

\* "async with self._locks[domain]": the lock is taken when it is free
wait_if_needed_acquire(c) ==
    /\ limiter.callers[c].pc = "acquiring"
    /\ limiter._locks[limiter.callers[c].domain] = Unlocked
    /\ limiter' = [limiter EXCEPT !._locks[limiter.callers[c].domain] = c,
                                  !.callers[c].pc = "locked"]
    /\ UNCHANGED <<nodes, eras, events, edits, users, links, last, cache, readers, writer, sessions>>

\* the time to sleep: min_delay - elapsed when the last request is less than
\* min_delay old, nothing otherwise
wait_time_mutant(last_time, now) ==
    IF last_time # NoTime /\ now - last_time < min_delay
    THEN now - last_time
    ELSE 0
wait_time(last_time, now) ==
    IF last_time # NoTime /\ now - last_time < min_delay
    THEN min_delay - (now - last_time)
    ELSE 0

\* the body up to the await: last_time is read and the sleep, if any, begins
wait_if_needed_check(c) ==
    LET domain == limiter.callers[c].domain
        wait == wait_time(limiter.last_request_time[domain], limiter.now)
    IN  /\ limiter.callers[c].pc = "locked"
        /\ limiter' = [limiter EXCEPT !.callers[c] =
                          [pc |-> IF wait > 0 THEN "sleeping" ELSE "awake",
                           domain |-> domain, wake_at |-> limiter.now + wait,
                           slept |-> wait > 0]]
        /\ UNCHANGED <<nodes, eras, events, edits, users, links, last, cache, readers, writer, sessions>>

\* asyncio.sleep(wait_time) returns, at or after the time asked for
wait_if_needed_wake(c) ==
    /\ limiter.callers[c].pc = "sleeping"
    /\ limiter.now >= limiter.callers[c].wake_at
    /\ limiter' = [limiter EXCEPT !.callers[c].pc = "awake"]
    /\ UNCHANGED <<nodes, eras, events, edits, users, links, last, cache, readers, writer, sessions>>

\* "self.last_request_time[domain] = datetime.now()", the lock is released
\* and the call returns
wait_if_needed_return(c) ==
    LET domain == limiter.callers[c].domain
    IN  /\ limiter.callers[c].pc = "awake"
        /\ limiter' = [limiter EXCEPT
                          !.last_request_time[domain] = limiter.now,
                          !._locks[domain] = Unlocked,
                          !.callers[c] = [pc |-> "done"],
                          !.returned = Append(@, [caller |-> c, domain |-> domain,
                                                  time |-> limiter.now,
                                                  slept |-> limiter.callers[c].slept])]
        /\ UNCHANGED <<nodes, eras, events, edits, users, links, last, cache, readers, writer, sessions>>


Next ==
    \/ create_era
    \/ create_metadata_edit
    \/ create_merge_edit
    \/ create_split_edit
    \/ review_edit
    \/ create_event
    \/ link_sponsor_to_era
    \/ get_graph_data
    \/ \E r \in Readers : reader_begin(r)
    \/ \E r \in Readers : reader_query_nodes(r)
    \/ \E r \in Readers : reader_query_events(r)
    \/ \E r \in Readers : reader_finish(r)
    \/ create_era_commit
    \/ create_era_invalidate
    \/ create_event_commit
    \/ create_event_invalidate
    \/ create_event_canonicalize
    \/ link_sponsor_to_era_flush
    \/ link_sponsor_to_era_commit
    \/ create_metadata_edit_apply
    \/ create_metadata_edit_record
    \/ create_merge_edit_apply
    \/ create_merge_edit_record
    \/ create_split_edit_apply
    \/ create_split_edit_record
    \/ \E s \in Sessions : session_check(s)
    \/ \E s \in Sessions : session_flush(s)
    \/ \E s \in Sessions : session_commit(s)
    \/ upsert_scraped_data
    \/ \E s \in Sessions : session_event_commit(s)
    \/ \E s \in Sessions : session_event_query(s)
    \/ \E s \in Sessions : session_event_canonicalize(s)
    \/ \E s \in Sessions : session_review_apply(s)
    \/ \E s \in Sessions : session_review_commit(s)
    \/ clock_tick
    \/ \E c \in Callers, d \in Domains : wait_if_needed_call(c, d)
    \/ \E c \in Callers : wait_if_needed_acquire(c)
    \/ \E c \in Callers : wait_if_needed_check(c)
    \/ \E c \in Callers : wait_if_needed_wake(c)
    \/ \E c \in Callers : wait_if_needed_return(c)

Spec == Init /\ [][Next]_vars

\* the edit workflow alone: edits are created and reviewed
NextModeration ==
    \/ create_metadata_edit
    \/ create_merge_edit
    \/ create_split_edit
    \/ review_edit

SpecModeration == Init /\ [][NextModeration]_vars

\* the writers of nodes and eras
NextEras ==
    \/ create_era
    \/ create_merge_edit
    \/ create_split_edit
    \/ review_edit

SpecEras == Init /\ [][NextEras]_vars

\* the writers of nodes and lineage events
NextLineage ==
    \/ create_event
    \/ create_merge_edit
    \/ create_split_edit
    \/ review_edit

SpecLineage == Init /\ [][NextLineage]_vars

\* the writer of sponsor links, over the eras of the initial state
NextSponsor ==
    \/ link_sponsor_to_era

SpecSponsor == Init /\ [][NextSponsor]_vars

\* ================================================================== claims
CreateEditOps == {"create_metadata_edit", "create_merge_edit", "create_split_edit"}

\* the step recorded an edit: the edit recorded and the user who submitted it
recorded == edits'[Len(edits')]
submitter == recorded.user_id

\* ------------------------------------------------------------------ C1
\* C1: once an Edit's status is APPROVED or REJECTED no later step changes it,
\* so the only transitions taken are PENDING->APPROVED and PENDING->REJECTED.
C1_StatusIsTerminal ==
    [][\A e \in 1..Len(edits) :
          edits[e].status \in {"APPROVED", "REJECTED"}
              => edits'[e].status = edits[e].status]_vars

\* ------------------------------------------------------------------ C2
\* C2: when a non-banned NEW_USER submits a metadata, merge or split edit
\* that is accepted, exactly one Edit is recorded, with status PENDING, and
\* no node, era, event or user row changes.
C2_NewUserEditIsPendingOnly ==
    [][(/\ last'.op \in CreateEditOps
        /\ last'.result \in {"PENDING", "APPROVED"}
        /\ users[submitter].role = "NEW_USER")
          => /\ last'.result = "PENDING"
             /\ Len(edits') = Len(edits) + 1
             /\ SubSeq(edits', 1, Len(edits)) = edits
             /\ recorded.status = "PENDING"
             /\ recorded.reviewed_by = NoneStr
             /\ UNCHANGED <<nodes, eras, events, users, links>>]_vars

\* a NEW_USER's split request has just been queued
C2_Witness ==
    /\ last.op = "create_split_edit"
    /\ last.result = "PENDING"
    /\ edits[last.edit].status = "PENDING"
    /\ users[edits[last.edit].user_id].role = "NEW_USER"
    /\ ~users[edits[last.edit].user_id].is_banned

\* ------------------------------------------------------------------ C3
\* the value a column holds after an assignment of v to field k
stored(k, v) == IF k = "registered_name" THEN strip(v) ELSE v

\* C3: when a non-banned TRUSTED_USER or ADMIN submits a metadata edit that
\* is accepted, the Edit is recorded as APPROVED (never PENDING), every field
\* of the change payload is set on the era and no other field of it changes,
\* the era has is_manual_override = true and source_origin naming the actor,
\* and the actor's approved-edit counter is one higher.
C3_TrustedMetadataEditIsApplied ==
    [][(/\ last'.op = "create_metadata_edit"
        /\ last'.result \in {"PENDING", "APPROVED"}
        /\ users[submitter].role \in {"TRUSTED_USER", "ADMIN"})
          => /\ last'.result = "APPROVED"
             /\ ~users[submitter].is_banned
             /\ Len(edits') = Len(edits) + 1
             /\ recorded.status = "APPROVED"
             /\ recorded.reviewed_by = submitter
             /\ LET era_id == recorded.target_era_id
                    before == eras[era_id]
                    after == eras'[era_id]
                IN  /\ \A k \in {"registered_name", "uci_code", "tier_level"} :
                          after[k] = IF k \in DOMAIN recorded.changes
                                     THEN stored(k, recorded.changes[k])
                                     ELSE before[k]
                    /\ after.is_manual_override = TRUE
                    /\ after.source_origin = "user_" \o submitter
                    /\ after.node_id = before.node_id
                    /\ after.season_year = before.season_year
                    /\ \A i \in 1..Len(eras) : i # era_id => eras'[i] = eras[i]
             /\ Len(eras') = Len(eras)
             /\ users'[submitter].approved_edits_count
                    = users[submitter].approved_edits_count + 1
             /\ users'[submitter].role = users[submitter].role
             /\ \A u \in Users \ {submitter} : users'[u] = users[u]]_vars

\* a trusted user's change of code and tier has just been applied
C3_Witness ==
    /\ last.op = "create_metadata_edit"
    /\ last.result = "APPROVED"
    /\ edits[last.edit].user_id = "u_trusted"
    /\ DOMAIN edits[last.edit].changes = {"uci_code", "tier_level"}
    /\ eras[edits[last.edit].target_era_id].uci_code = "IGD"
    /\ eras[edits[last.edit].target_era_id].is_manual_override

\* ------------------------------------------------------------------ C4
\* the graph the trusted path produces for the request a queued edit holds
trusted_path(edit) ==
    IF edit.edit_type = "MERGE"
    THEN EditService_apply_merge(Store,
             [source_node_ids |-> edit.changes.source_node_ids,
              merge_year |-> edit.changes.merge_year,
              new_team_name |-> edit.changes.new_team_name,
              new_team_tier |-> edit.changes.new_team_tier],
             edit.user_id, edit.changes.source_node_ids)
    ELSE EditService_apply_split(Store,
             [source_node_id |-> edit.target_node_id,
              split_year |-> edit.changes.split_year,
              new_teams |-> edit.changes.new_teams],
             edit.user_id).db

\* C4: approving a PENDING merge or split Edit through review_edit leaves
\* the Edit APPROVED and the nodes, eras and events exactly as the trusted
\* path would have left them for the same request.
C4_ApprovalMatchesTrustedPath ==
    [][(/\ last'.op = "review_edit"
        /\ last'.result # "rejected"
        /\ edits[last'.edit].status = "PENDING"
        /\ edits[last'.edit].edit_type \in {"MERGE", "SPLIT"})
          => /\ edits'[last'.edit].status = "APPROVED"
             /\ nodes' = trusted_path(edits[last'.edit]).nodes
             /\ eras' = trusted_path(edits[last'.edit]).eras
             /\ events' = trusted_path(edits[last'.edit]).events]_vars

\* ------------------------------------------------------------------ C5
\* C5: when the apply routine fails during review_edit(approved=True) the
\* caller is told of the failure and nothing of the review is persisted: the
\* Edit keeps the status it had (PENDING for a queued edit), no node, era or
\* event changes, and the submitter's counter and role are unchanged.
C5_FailedReviewIsRolledBack ==
    [][(last'.op = "review_edit" /\ last'.result = "ValueError")
          => UNCHANGED <<nodes, eras, events, edits, users, links>>]_vars

\* the approval of a queued rename whose code the era refuses has just failed
C5_Witness ==
    /\ last.op = "review_edit"
    /\ last.result = "ValueError"
    /\ edits[last.edit].status = "PENDING"
    /\ edits[last.edit].edit_type = "METADATA"
    /\ DOMAIN edits[last.edit].changes = {"registered_name", "uci_code"}
    /\ eras[edits[last.edit].target_era_id].registered_name = "Sky"
    /\ users[edits[last.edit].user_id].approved_edits_count = 0

\* ------------------------------------------------------------------ C6
\* C6: in every reachable state every node has founding_year >= 1900 and,
\* when its dissolution_year is set, dissolution_year >= founding_year.
C6_NodeYearsOrdered ==
    \A n \in 1..Len(nodes) :
        /\ nodes[n].founding_year >= MinYear
        /\ nodes[n].dissolution_year # None
              => nodes[n].dissolution_year >= nodes[n].founding_year

\* ------------------------------------------------------------------ C7
\* C7: in every reachable state every event with a previous node has
\* event_year >= that node's founding_year, and every event whose next node
\* has a dissolution_year has event_year <= it, also when the dissolution
\* year is set after the event was recorded.
C7_EventYearsWithinLifespans ==
    \A i \in 1..Len(events) :
        /\ events[i].previous_node_id # None
              => events[i].event_year
                    >= nodes[events[i].previous_node_id].founding_year
        /\ (events[i].next_node_id # None /\
            nodes[events[i].next_node_id].dissolution_year # None)
              => events[i].event_year
                    <= nodes[events[i].next_node_id].dissolution_year

\* ------------------------------------------------------------------ C8
\* C8: after every step the prominence of each era's links sums to at most
\* 100; a link_sponsor_to_era call succeeds only when its prominence added to
\* the era's sum stays within 100, and a call that fails leaves the links,
\* and so every sum, unchanged.
C8_ProminenceSumBounded ==
    [][/\ \A e \in 1..Len(eras') : prominence_sum(links', e) <= MaxProminence
       /\ (last'.op = "link_sponsor_to_era" /\ last'.result # "ok")
             => links' = links
       /\ (last'.op = "link_sponsor_to_era" /\ last'.result = "ok")
             => /\ Len(links') = Len(links) + 1
                /\ SubSeq(links', 1, Len(links)) = links
                /\ prominence_sum(links, links'[Len(links')].era_id)
                      + links'[Len(links')].prominence_percent <= MaxProminence]_vars

\* the only link holds 60 of its era and a further link there has been refused
C8_Witness ==
    /\ last.op = "link_sponsor_to_era"
    /\ last.result = "ValidationException: exceed"
    /\ Len(links) = 1
    /\ links[1].prominence_percent = 60
    /\ prominence_sum(links, links[1].era_id) = 60

C10_EventEndpoints ==
    \A i \in 1..Len(events) :
        /\ events[i].previous_node_id # None \/ events[i].next_node_id # None
        /\ events[i].previous_node_id # events[i].next_node_id

\* an event recorded by create_event stands beside the legs of a merge
C10_Witness ==
    /\ Len(events) = 3
    /\ events[1].event_type \in {"LEGAL_TRANSFER", "SPIRITUAL_SUCCESSION"}
    /\ events[2].event_type = "MERGE"
    /\ events[3].event_type = "MERGE"
    /\ events[2].next_node_id = 3

\* the writers that empty the cache and one that does not, with the reader
NextCache ==
    \/ create_era
    \/ create_metadata_edit
    \/ get_graph_data

SpecCache == Init /\ [][NextCache]_vars

\* ----------------------------------------------------------------- C11
\* C11: with the cache enabled every successful committed mutation of the
\* graph empties the cache, so every entry the cache holds is the projection
\* of the committed rows and a get_graph_data call returns that projection.
C11_CacheHoldsCurrentProjection ==
    /\ \A key \in DOMAIN cache :
          \A args \in GraphInputs :
              cache_key(args) = key => cache[key] = projection(args)
    /\ last.op = "get_graph_data" => last.arg[2] = projection(last.arg[1])

\* one writer beside the readers, every coroutine advancing step by step
NextConcurrent ==
    \/ \E r \in Readers : reader_begin(r)
    \/ \E r \in Readers : reader_query_nodes(r)
    \/ \E r \in Readers : reader_query_events(r)
    \/ \E r \in Readers : reader_finish(r)
    \/ create_era_commit
    \/ create_era_invalidate
    \/ create_event_commit
    \/ create_event_invalidate
    \/ create_event_canonicalize
    \/ link_sponsor_to_era_flush
    \/ link_sponsor_to_era_commit

SpecConcurrent == Init /\ [][NextConcurrent]_vars

\* C12: under any interleaving of one writer with concurrent readers, a
\* get_graph_data call that began after the writer's latest commit returns
\* the projection of the committed rows, from the cache or freshly built: no
\* result read before the commit is served to it.
C12_ReadersAfterCommitSeeWrite ==
    (/\ last.op = "get_graph_data"
     /\ commits >= 1
     /\ last.arg[3] = commits)
        => last.arg[2] = projection(last.arg[1])

\* the projection over stores with several nodes of one founding year and
\* several events of one year
NextProjection ==
    \/ create_split_edit
    \/ get_graph_data

SpecProjection == Init /\ [][NextProjection]_vars

\* C13: for a fixed store and fixed arguments the projection is the same in
\* whatever order the queries return the nodes, eras, sponsor links and
\* events, and two consecutive calls with the same arguments and no write in
\* between return the same output.
C13_ProjectionIsDeterministic ==
    [][last'.op = "get_graph_data" =>
          /\ last'.result = "miss" => last'.arg[2] = projection(last'.arg[1])
          /\ (last.op = "get_graph_data" /\ last.arg[1] = last'.arg[1])
                => last'.arg[2] = last.arg[2]]_vars

\* the legs of merges and splits authored one event at a time, beside the
\* splits that add nodes
NextCanonical ==
    \/ create_split_edit
    \/ create_leg

SpecCanonical == Init /\ [][NextCanonical]_vars

\* the event a call submits, and the pivot of its group
leg_event(call) == LineageEvent(call[1][1], call[1][2], call[1][3], call[1][4], call[2])
pivot(event) ==
    IF event.event_type = "MERGE" THEN event.next_node_id ELSE event.previous_node_id
other_end(event) ==
    IF event.event_type = "MERGE" THEN event.previous_node_id ELSE event.next_node_id
accepted(call) ==
    create_event_result(Store, call[1][1], call[1][2], call[1][3], call[1][4], call[2]) = "ok"
same_group(a, b) ==
    /\ a.event_type = b.event_type
    /\ a.event_type \in {"MERGE", "SPLIT"}
    /\ a.event_year = b.event_year
    /\ pivot(a) = pivot(b)
    /\ other_end(a) # other_end(b)
has_incomplete(notes, event_type) ==
    \E k \in 1..Len(notes) : starts_incomplete(notes[k], event_type)

\* C14: for two MERGE legs of one year into one next node from different
\* previous nodes, and for two SPLIT legs of one year out of one previous
\* node, create_event(A) then create_event(B) leaves both events, and every
\* earlier event, with the types and notes that create_event(B) then
\* create_event(A) leaves them with.
C14_CanonicalizationOrderIndependent ==
    \A A \in LegInputs, B \in LegInputs :
        (accepted(A) /\ accepted(B) /\ same_group(leg_event(A), leg_event(B))) =>
            LET n == Len(events)
                ab == create_event_applied(create_event_applied(events, leg_event(A)),
                                           leg_event(B))
                ba == create_event_applied(create_event_applied(events, leg_event(B)),
                                           leg_event(A))
            IN  /\ ab[n + 1] = ba[n + 2]
                /\ ab[n + 2] = ba[n + 1]
                /\ \A i \in 1..n : ab[i] = ba[i]

\* two legs of one group have been created one after the other
C14_Witness ==
    /\ last.op = "create_event" /\ last.result = "ok"
    /\ Len(events) = LegCap
    /\ same_group(last.arg[1], [events[LegCap - 1] EXCEPT !.event_type = "MERGE"])
    /\ events[LegCap - 1].event_type = "LEGAL_TRANSFER"
    /\ events[LegCap].event_type = "LEGAL_TRANSFER"

\* C15: a MERGE event that create_event creates as the only MERGE event of
\* its year and next node, or a SPLIT event created as the only SPLIT event
\* of its year and previous node, is stored as LEGAL_TRANSFER with no
\* INCOMPLETE MERGE / INCOMPLETE SPLIT part in its notes, its other parts and
\* fields and every earlier event kept.
C15_SingleLegIsDowngraded ==
    [][(/\ last'.op = "create_event" /\ last'.result = "ok"
        /\ Len(events') = Len(events) + 1
        /\ last'.arg[1].event_type \in {"MERGE", "SPLIT"}
        /\ ~\E i \in 1..Len(events) :
               /\ events[i].event_type = last'.arg[1].event_type
               /\ events[i].event_year = last'.arg[1].event_year
               /\ pivot([events[i] EXCEPT !.event_type = last'.arg[1].event_type])
                     = pivot(last'.arg[1]))
        => LET e == last'.arg[1]
               kept == events'[Len(events')]
           IN  /\ kept.event_type = "LEGAL_TRANSFER"
               /\ ~has_incomplete(kept.notes, e.event_type)
               /\ kept.notes = SelectSeq(e.notes,
                                    LAMBDA part : ~starts_incomplete(part, e.event_type))
               /\ kept.previous_node_id = e.previous_node_id
               /\ kept.next_node_id = e.next_node_id
               /\ kept.event_year = e.event_year
               /\ SubSeq(events', 1, Len(events)) = events]_vars

\* a single MERGE leg submitted with the warning and another note
C15_Witness ==
    /\ last.op = "create_event" /\ last.result = "ok"
    /\ last.arg[1].event_type = "MERGE"
    /\ last.arg[1].notes = <<"first leg", "INCOMPLETE MERGE: one leg only">>
    /\ events[Len(events)].event_type = "LEGAL_TRANSFER"
    /\ events[Len(events)].notes = <<"first leg">>

\* C16: after create_event has been called, one call after the other, for
\* two MERGE legs of one year into one next node from different previous
\* nodes, or for two SPLIT legs of one year out of one previous node, both
\* events have the type of the legs and neither carries an INCOMPLETE MERGE /
\* INCOMPLETE SPLIT part.
C16_TwoLegsAreGenuine ==
    [][(/\ last.op = "create_event" /\ last.result = "ok"
        /\ last'.op = "create_event" /\ last'.result = "ok"
        /\ Len(events') = Len(events) + 1
        /\ same_group(last.arg[1], last'.arg[1]))
        => LET n == Len(events')
               t == last'.arg[1].event_type
           IN  /\ events'[n - 1].event_type = t
               /\ events'[n].event_type = t
               /\ ~has_incomplete(events'[n - 1].notes, t)
               /\ ~has_incomplete(events'[n].notes, t)]_vars

\* the nodes a list names, and the rows a step has added
Range(seq) == {seq[k] : k \in 1..Len(seq)}
added_nodes == (Len(nodes) + 1)..Len(nodes')
added_eras == (Len(eras) + 1)..Len(eras')
added_events == (Len(events) + 1)..Len(events')
rows_kept ==
    /\ SubSeq(eras', 1, Len(eras)) = eras
    /\ SubSeq(events', 1, Len(events)) = events
    /\ links' = links

\* C17: a merge of the source nodes S at year Y that is applied sets
\* dissolution_year = Y on every node of S, adds exactly one node, founded in
\* Y, with exactly one era (season Y, the requested name and tier), and adds
\* exactly one MERGE event per node of S, from it to the new node in year Y;
\* no other node, era, event or sponsor link changes.
C17_MergeApplied ==
    [][(last'.op = "create_merge_edit" /\ last'.result = "APPROVED")
        => LET request == recorded.changes
               S == Range(request.source_node_ids)
               Y == request.merge_year
               new == Len(nodes) + 1
           IN  /\ added_nodes = {new}
               /\ nodes'[new] = TeamNode(Y)
               /\ \A i \in 1..Len(nodes) :
                     nodes'[i] = IF i \in S THEN [nodes[i] EXCEPT !.dissolution_year = Y]
                                 ELSE nodes[i]
               /\ Cardinality(added_eras) = 1
               /\ \A e \in added_eras :
                     /\ eras'[e].node_id = new
                     /\ eras'[e].season_year = Y
                     /\ eras'[e].registered_name = request.new_team_name
                     /\ eras'[e].tier_level = request.new_team_tier
               /\ \A j \in added_events :
                     /\ events'[j].event_type = "MERGE"
                     /\ events'[j].previous_node_id \in S
                     /\ events'[j].next_node_id = new
                     /\ events'[j].event_year = Y
               /\ \A n \in S :
                     Cardinality({j \in added_events :
                                     events'[j].previous_node_id = n}) = 1
               /\ rows_kept]_vars

\* the step applied a split: by create_split_edit of a trusted user or an
\* admin, or by review_edit approving a SPLIT edit
split_applied ==
    \/ last'.op = "create_split_edit" /\ last'.result = "APPROVED"
    \/ /\ last'.op = "review_edit" /\ last'.result \in {"approved", "promoted"}
       /\ edits'[last'.edit].edit_type = "SPLIT"

\* C18: a split of node N at year Y into k team descriptors that is applied
\* sets N.dissolution_year = Y, adds exactly k nodes founded in Y, each with
\* exactly one era (season Y, the descriptor's name and tier), and adds
\* exactly k SPLIT events of year Y from N, one to each new node; no other
\* node, era, event or sponsor link changes.
C18_SplitApplied ==
    [][split_applied
        => LET edit == edits'[last'.edit]
               N == edit.target_node_id
               Y == edit.changes.split_year
               teams == edit.changes.new_teams
               k == Len(teams)
               base == Len(nodes)
           IN  /\ added_nodes = (base + 1)..(base + k)
               /\ \A i \in added_nodes : nodes'[i] = TeamNode(Y)
               /\ \A i \in 1..base :
                     nodes'[i] = IF i = N THEN [nodes[i] EXCEPT !.dissolution_year = Y]
                                 ELSE nodes[i]
               /\ Cardinality(added_eras) = k
               /\ \A j \in 1..k :
                     \E e \in added_eras :
                        /\ {x \in 1..Len(eras') : eras'[x].node_id = base + j} = {e}
                        /\ eras'[e].season_year = Y
                        /\ eras'[e].registered_name = teams[j].name
                        /\ eras'[e].tier_level = teams[j].tier
               /\ Cardinality(added_events) = k
               /\ \A j \in 1..k :
                     \E v \in added_events :
                        /\ {x \in added_events : events'[x].next_node_id = base + j} = {v}
                        /\ events'[v].previous_node_id = N
                        /\ events'[v].event_type = "SPLIT"
                        /\ events'[v].event_year = Y
               /\ rows_kept]_vars

\* an admin has approved a NEW_USER's split and it has been applied
C18_Witness ==
    /\ last.op = "review_edit" /\ last.result = "approved"
    /\ edits[last.edit].edit_type = "SPLIT"
    /\ edits[last.edit].user_id = "u_new"
    /\ Len(nodes) = 2 + MaxTargets
    /\ Len(events) = MaxTargets
    /\ nodes[edits[last.edit].target_node_id].dissolution_year
          = edits[last.edit].changes.split_year

\* the users the edit routes let through to EditService, whatever their role
Editors == {u \in Users : can_edit(users[u])}

\* the stored node owns an era of that season
active_in(n, y) ==
    \E i \in 1..Len(eras) : eras[i].node_id = n /\ eras[i].season_year = y

\* the request names only stored nodes, and one of them has no era in the year
inactive_source(source_node_ids, year) ==
    /\ \A k \in 1..Len(source_node_ids) : source_node_ids[k] \in 1..Len(nodes)
    /\ \E k \in 1..Len(source_node_ids) : ~active_in(source_node_ids[k], year)

team_not_active(reply) ==
    /\ reply.result = "ValueError: not active"
    /\ reply.edit = None
    /\ reply.db = Store

NextPromotion ==
    \/ submit_metadata_edit
    \/ review_edit_to_promotion

SpecPromotion == Init /\ [][NextPromotion]_vars

\* the step is an approval by review_edit of an edit of submitter u
approval_of(u) ==
    /\ last'.op = "review_edit" /\ last'.result \in {"approved", "promoted"}
    /\ edits'[last'.edit].user_id = u

\* C20: a submitter who starts as NEW_USER with count 0 is NEW_USER exactly
\* while the count is below 5; each approval of an edit of a NEW_USER raises
\* the count by one, leaves the role NEW_USER when the new count is 1..4 and
\* makes it TRUSTED_USER in the review_edit that brings the count to 5, which
\* is the one answered as a promotion; no other step changes the role.
C20_PromotionAtThreshold ==
    /\ [](\A u \in {"u_new", "u_banned"} :
             /\ users[u].role \in {"NEW_USER", "TRUSTED_USER"}
             /\ users[u].role = "NEW_USER"
                  <=> users[u].approved_edits_count < PromotionThreshold)
    /\ [][\A u \in {"u_new", "u_banned"} :
             /\ (approval_of(u) /\ users[u].role = "NEW_USER")
                  => /\ users'[u].approved_edits_count
                          = users[u].approved_edits_count + 1
                     /\ users'[u].role =
                          IF users'[u].approved_edits_count = PromotionThreshold
                          THEN "TRUSTED_USER" ELSE "NEW_USER"
                     /\ last'.result = "promoted"
                          <=> users'[u].approved_edits_count = PromotionThreshold
             /\ users'[u].role # users[u].role => approval_of(u)]_vars

\* the approval of the submitter's fifth edit, the other four being approved
\* already, has just promoted the submitter
C20_Witness ==
    /\ last.op = "review_edit" /\ last.result = "promoted"
    /\ users["u_new"].approved_edits_count = PromotionThreshold
    /\ users["u_new"].role = "TRUSTED_USER"
    /\ Len(edits) = PromotionThreshold
    /\ last.edit = PromotionThreshold
    /\ \A i \in 1..Len(edits) :
          edits[i].user_id = "u_new" /\ edits[i].status = "APPROVED"

\* the step is a review_edit that approved the queued metadata edit `reviewed`
reviewed == edits[last'.edit]
metadata_approved ==
    /\ last'.op = "review_edit" /\ last'.result \in {"approved", "promoted"}
    /\ reviewed.status = "PENDING"
    /\ reviewed.edit_type = "METADATA"

\* C21: a review_edit that approves a PENDING metadata Edit puts every field
\* of the change payload on the target era and leaves its other fields and
\* every other era, node and event alone, sets is_manual_override and makes
\* source_origin name the submitter, raises the submitter's counter by one
\* and leaves the Edit APPROVED, reviewed by the admin, the other edits
\* unchanged.
C21_ApprovedMetadataEditIsApplied ==
    [][metadata_approved
        => LET era_id == reviewed.target_era_id
               before == eras[era_id]
               after == eras'[era_id]
               who == reviewed.user_id
           IN  /\ \A k \in {"registered_name", "uci_code", "tier_level"} :
                     after[k] = IF k \in DOMAIN reviewed.changes
                                THEN stored(k, reviewed.changes[k])
                                ELSE before[k]
               /\ after.is_manual_override = TRUE
               /\ after.source_origin = "user_" \o who
               /\ after.node_id = before.node_id
               /\ after.season_year = before.season_year
               /\ Len(eras') = Len(eras)
               /\ \A i \in 1..Len(eras) : i # era_id => eras'[i] = eras[i]
               /\ UNCHANGED <<nodes, events, links>>
               /\ users'[who].approved_edits_count
                      = users[who].approved_edits_count + 1
               /\ \A u \in Users \ {who} : users'[u] = users[u]
               /\ Len(edits') = Len(edits)
               /\ edits'[last'.edit].status = "APPROVED"
               /\ is_admin(users[edits'[last'.edit].reviewed_by])
               /\ edits'[last'.edit].changes = reviewed.changes
               /\ \A e \in 1..Len(edits) : e # last'.edit => edits'[e] = edits[e]]_vars

\* the approval of a NEW_USER's queued change of code and tier has just been
\* applied to an era no curator had touched
C21_Witness ==
    /\ last.op = "review_edit" /\ last.result = "approved"
    /\ edits[last.edit].edit_type = "METADATA"
    /\ edits[last.edit].status = "APPROVED"
    /\ edits[last.edit].user_id = "u_new"
    /\ DOMAIN edits[last.edit].changes = {"uci_code", "tier_level"}
    /\ eras[edits[last.edit].target_era_id].uci_code = "IGD"
    /\ eras[edits[last.edit].target_era_id].tier_level = 2
    /\ eras[edits[last.edit].target_era_id].registered_name = "Sky"
    /\ eras[edits[last.edit].target_era_id].source_origin = "user_u_new"
    /\ eras[edits[last.edit].target_era_id].is_manual_override
    /\ users["u_new"].approved_edits_count = 1

\* the step is a review_edit that turned down the queued edit `reviewed`
rejected_pending ==
    /\ last'.op = "review_edit" /\ last'.result = "rejected"
    /\ reviewed.status = "PENDING"

\* the notes a reviewer gives: none, or a remark
ReviewNotes == {NoneStr, "checked"}

\* the notes a rejection with the given notes is to store
rejection_notes(notes) ==
    IF notes = NoneStr THEN "Edit rejected by moderator" ELSE notes

\* C22: a review_edit that rejects a PENDING Edit leaves it REJECTED with
\* the admin as reviewer and with the notes given or, when none are given, the
\* default rejection message; the Edit's other fields, every other edit, and
\* every node, era, event, sponsor link and user (counter and role) are
\* unchanged.
C22_RejectionChangesOnlyTheEdit ==
    /\ [](\A e \in 1..Len(edits), notes \in ReviewNotes :
            \A admin \in {u \in Users : is_admin(users[u])} :
               edits[e].status = "PENDING"
                 => LET r == review_edit_reply(Store, e, admin, FALSE, notes)
                    IN  /\ r.result = "rejected"
                        /\ r.db = [Store EXCEPT !.edits[e] =
                                     [edits[e] EXCEPT
                                        !.status = "REJECTED",
                                        !.reviewed_by = admin,
                                        !.review_notes = rejection_notes(notes)]])
    /\ [][rejected_pending
          => /\ Len(edits') = Len(edits)
             /\ \E notes \in ReviewNotes :
                   \E admin \in {u \in Users : is_admin(users[u])} :
                      edits'[last'.edit] =
                         [reviewed EXCEPT !.status = "REJECTED",
                                          !.reviewed_by = admin,
                                          !.review_notes = rejection_notes(notes)]
             /\ \A e \in 1..Len(edits) : e # last'.edit => edits'[e] = edits[e]
             /\ UNCHANGED <<nodes, eras, events, links, users>>]_vars

\* a queued edit has just been rejected without notes
C22_Witness ==
    /\ last.op = "review_edit" /\ last.result = "rejected"
    /\ edits[last.edit].status = "REJECTED"
    /\ edits[last.edit].review_notes = "Edit rejected by moderator"
    /\ edits[last.edit].user_id = "u_new"
    /\ users["u_new"].approved_edits_count = 0
    /\ eras[1].registered_name = "Sky" /\ ~eras[1].is_manual_override

\* the users the gate is to turn away: banned, or of role GUEST
Gated == {u \in Users : users[u].is_banned \/ users[u].role = "GUEST"}

forbidden(reply) ==
    /\ reply.result = "Forbidden"
    /\ reply.edit = None
    /\ reply.db = Store

\* every metadata and merge request of a gated user is turned away
gated_metadata_and_merge ==
    \A u \in Gated :
        /\ \A c \in MetadataInputs :
              forbidden(create_metadata_edit_reply(Store, u,
                  EditMetadataRequest(c[1], c[2][1], c[2][2], c[2][3], c[2][4])))
        /\ \A c \in MergeInputs :
              forbidden(create_merge_edit_reply(Store, u, c[1], c[2], c[3], 1,
                                                "merged in that year"))

\* every split request of a gated user is turned away (it is not: see C23)
gated_split ==
    \A u \in Gated :
        \A c \in SplitInputs :
            forbidden(create_split_edit_reply(Store, u, c[1], c[2], c[3],
                                              "split in that year"))

\* C23: no create_metadata_edit, create_merge_edit or create_split_edit
\* records an Edit for a banned user or a GUEST, and a call answered
\* Forbidden leaves the edits and the graph as they were.
C23_GatedUsersCreateNoEdit ==
    [][/\ (last'.op \in CreateEditOps /\ Len(edits') > Len(edits))
             => recorded.user_id \notin Gated
       /\ (last'.op \in CreateEditOps /\ last'.result = "Forbidden")
             => UNCHANGED <<nodes, eras, events, edits, users, links>>]_vars

\* the part of C23 that holds: metadata and merge requests of gated users
C23_GatedMetadataAndMerge ==
    /\ []gated_metadata_and_merge
    /\ [][(last'.op \in {"create_metadata_edit", "create_merge_edit"}
             /\ Len(edits') > Len(edits))
                => recorded.user_id \notin Gated]_vars

\* eras being added, and trusted users and admins editing, each edit in its
\* two transactions
NextAtomic ==
    \/ create_era
    \/ create_metadata_edit_apply
    \/ create_metadata_edit_record
    \/ create_merge_edit_apply
    \/ create_merge_edit_record
    \/ create_split_edit_apply
    \/ create_split_edit_record

SpecAtomic == Init /\ [][NextAtomic]_vars

\* the APPROVED edits of user u in the committed rows
approved_edits(u) ==
    {i \in 1..Len(edits) : edits[i].user_id = u /\ edits[i].status = "APPROVED"}

\* era e carries the change of edit i: the era a metadata edit targets, or an
\* era a merge or split created for its new node in the operation year
carries(e, i) ==
    \/ edits[i].edit_type = "METADATA" /\ edits[i].target_era_id = e
    \/ edits[i].edit_type = "MERGE" /\ eras[e].season_year = edits[i].changes.merge_year
    \/ edits[i].edit_type = "SPLIT" /\ eras[e].season_year = edits[i].changes.split_year

\* the change of the APPROVED edit i is in the committed rows
change_present(i) ==
    CASE edits[i].edit_type = "METADATA" ->
            eras[edits[i].target_era_id].is_manual_override
      [] edits[i].edit_type = "MERGE" ->
            \A k \in 1..Len(edits[i].changes.source_node_ids) :
                nodes[edits[i].changes.source_node_ids[k]].dissolution_year # None
      [] OTHER -> nodes[edits[i].target_node_id].dissolution_year # None

\* C24: in every committed state, an era carries a user's change exactly when
\* that user's APPROVED Edit for it is recorded, and each user's counter is
\* the number of the user's APPROVED edits: the change, the Edit and the
\* increment are never seen one without the others.
C24_TrustedEditIsAtomic ==
    \A u \in Users :
        /\ \A e \in 1..Len(eras) :
              eras[e].source_origin = source_origin_of(u)
                  => \E i \in approved_edits(u) : carries(e, i)
        /\ \A i \in approved_edits(u) : change_present(i)
        /\ users[u].approved_edits_count = Cardinality(approved_edits(u))

\* concurrent callers of link_sponsor_to_era, each in its own session
NextSessions ==
    \/ \E s \in Sessions : session_check(s)
    \/ \E s \in Sessions : session_flush(s)
    \/ \E s \in Sessions : session_commit(s)

SpecSessions == Init /\ [][NextSessions]_vars

\* no two committed links of an era share a rank or a brand
links_unique ==
    \A i, j \in 1..Len(links) : i # j => ~same_key(links[i], links[j])

\* C25: under any interleaving of concurrent link_sponsor_to_era calls,
\* each in its own transaction, the committed links of every era sum to at
\* most 100 and no two of them share a rank or a brand.
C25_ConcurrentLinksKeepInvariants ==
    /\ \A e \in 1..Len(eras) : prominence_sum(links, e) <= MaxProminence
    /\ links_unique

\* the part of C25 the unique indexes ensure
C25_ConcurrentLinksUnique == links_unique

\* the ids of the nodes a projection lists
node_ids(result) == {result.nodes[i].id : i \in 1..Len(result.nodes)}

\* an era passes the tier filter: an absent or empty filter passes every era
passes_tier(era, tier_filter) ==
    \/ tier_filter = NoneList
    \/ tier_filter = << >>
    \/ \E k \in 1..Len(tier_filter) : tier_filter[k] = era.tier_level

\* the node has an era of the range that passes the filter
has_selected_era(n, args) ==
    \E e \in 1..Len(eras) :
        /\ eras[e].node_id = n
        /\ args.start_year <= eras[e].season_year
        /\ eras[e].season_year <= args.end_year
        /\ passes_tier(eras[e], args.tier_filter)

\* the node is not hidden as dissolved
not_hidden(n, args) ==
    \/ args.include_dissolved
    \/ nodes[n].dissolution_year = None
    \/ nodes[n].dissolution_year > args.end_year

\* C26: a projection built by get_graph_data lists a node exactly when the
\* node has an era within [start, end] whose tier passes the filter and, with
\* include_dissolved false, its dissolution_year is unset or after end.
C26_NodeInclusion ==
    [][(last'.op = "get_graph_data" /\ last'.result = "miss")
          => \A n \in 1..Len(nodes) :
                n \in node_ids(last'.arg[2])
                    <=> (has_selected_era(n, last'.arg[1]) /\ not_hidden(n, last'.arg[1]))]_vars

\* the part of C26 that holds: the dissolved filter decides the inclusion
C26_DissolvedFilterOnly ==
    [][(last'.op = "get_graph_data" /\ last'.result = "miss")
          => \A n \in 1..Len(nodes) :
                n \in node_ids(last'.arg[2]) <=> not_hidden(n, last'.arg[1])]_vars

\* the links of a projection end at nodes it lists, and it lists no id twice
no_orphans(result) ==
    /\ \A i \in 1..Len(result.links) :
          /\ result.links[i].source \in node_ids(result)
          /\ result.links[i].target \in node_ids(result)
    /\ \A i, j \in 1..Len(result.nodes) :
          result.nodes[i].id = result.nodes[j].id => i = j

\* C27: in every projection built by get_graph_data, whatever the store and
\* the arguments, every link has its source and its target among the ids of
\* the node list, and the node list holds no id twice.
C27_NoOrphanLinks ==
    [][(last'.op = "get_graph_data" /\ last'.result = "miss")
          => no_orphans(last'.arg[2])]_vars

\* the part of C27 that holds: projections that include the dissolved nodes
C27_NoOrphanLinksWithDissolved ==
    [][(last'.op = "get_graph_data" /\ last'.result = "miss"
          /\ last'.arg[1].include_dissolved)
          => no_orphans(last'.arg[2])]_vars

\* every writer of the era table, ingestion included; the edits are those of
\* the trusted path, sent by every user
curate_era == create_metadata_edit_of(Calls(TrustedMetadataInputs), MaxEdits, MaxCount)
merge_teams == create_merge_edit_of(Calls(TrustedMergeInputs))
split_team == create_split_edit_of(Calls(TrustedSplitInputs))

NextIngestion ==
    \/ create_era
    \/ curate_era
    \/ merge_teams
    \/ split_team
    \/ review_edit
    \/ upsert_scraped_data

SpecIngestion == Init /\ [][NextIngestion]_vars

\* ---------------------------------------------------------------- C28
\* the scraped team carries the name of an era a human has curated
scraped_name_is_curated ==
    \E e \in 1..Len(eras) :
        /\ eras[e].is_manual_override
        /\ eras[e].registered_name = strip(last.arg[2])

\* C28: an era with is_manual_override = TRUE keeps the flag through every
\* step of every operation, and a step of upsert_scraped_data leaves every
\* field of such an era as it was.
C28_CuratedErasImmuneToIngestion ==
    [][\A e \in 1..Len(eras) :
          eras[e].is_manual_override =>
              /\ e <= Len(eras')
              /\ eras'[e].is_manual_override
              /\ (last'.op = "upsert_scraped_data" => eras'[e] = eras[e])]_vars

C28_Witness ==
    /\ last.op = "upsert_scraped_data"
    /\ last.result = "ok"
    /\ scraped_name_is_curated
    /\ Len(eras) > 2

\* create_event next to a split, which dissolves a node, and to the reads
\* that fill the cache
EventCases ==
    {<<None, None, MinYear, "LEGAL_TRANSFER">>,
     <<1, 1, MinYear, "LEGAL_TRANSFER">>,
     <<Len(nodes) + 1, 1, MinYear, "LEGAL_TRANSFER">>,
     <<1, Len(nodes) + 1, MinYear, "LEGAL_TRANSFER">>,
     <<2, 1, MinYear, "LEGAL_TRANSFER">>,
     <<2, 1, MaxYear, "LEGAL_TRANSFER">>,
     <<1, None, MinYear, "MERGE">>,
     <<None, 1, MinYear, "SPLIT">>,
     <<None, 1, MinYear - 1, "LEGAL_TRANSFER">>,
     <<1, None, MinYear, "LEGAL_TRANSFER">>,
     <<1, 2, MaxYear, "SPLIT">>}

create_event_beside_split == create_event_of(EventCases \X NotesInputs, MaxEvents + MaxTargets)

NextEvents ==
    \/ create_event_beside_split
    \/ create_split_edit
    \/ get_graph_data

SpecEvents == Init /\ [][NextEvents]_vars

\* ---------------------------------------------------------------- C29
\* the cases in which create_event is to fail, for a request
\* c = <<previous_id, next_id, year, event_type>> in the current store
both_empty(c) == c[1] = None /\ c[2] = None
same_endpoints(c) == c[1] # None /\ c[1] = c[2]
unknown_endpoint(c) ==
    \/ c[1] # None /\ c[1] \notin 1..Len(nodes)
    \/ c[2] # None /\ c[2] \notin 1..Len(nodes)
before_founding(c) ==
    c[1] \in 1..Len(nodes) /\ c[3] < nodes[c[1]].founding_year
after_dissolution(c) ==
    /\ c[2] \in 1..Len(nodes)
    /\ nodes[c[2]].dissolution_year # None
    /\ c[3] > nodes[c[2]].dissolution_year
merge_without_next(c) == c[4] = "MERGE" /\ c[2] = None
split_without_previous(c) == c[4] = "SPLIT" /\ c[1] = None

listed_failure(c) ==
    \/ both_empty(c)
    \/ same_endpoints(c)
    \/ unknown_endpoint(c)
    \/ before_founding(c)
    \/ after_dissolution(c)
    \/ merge_without_next(c)
    \/ split_without_previous(c)

\* the year is below the minimum the table lineage_event accepts
below_minimum_year(c) == c[3] < MinYear

create_event_fails(c, notes) ==
    create_event_result(Store, c[1], c[2], c[3], c[4], notes) # "ok"

\* a create_event step that fails leaves the events and the cache alone, one
\* that succeeds adds exactly one event
create_event_step ==
    last'.op = "create_event" =>
        IF last'.result = "ok"
        THEN /\ Len(events') = Len(events) + 1
             /\ events'[Len(events')].previous_node_id = last'.arg[1].previous_node_id
             /\ events'[Len(events')].next_node_id = last'.arg[1].next_node_id
             /\ events'[Len(events')].event_year = last'.arg[1].event_year
        ELSE UNCHANGED <<events, cache>>

\* C29 as stated: create_event fails, persisting nothing and leaving events
\* and cache untouched, exactly in the seven listed cases; in every other
\* case exactly one event is persisted.
C29_CreateEventFailsInListedCasesOnly ==
    /\ [](\A c \in EventInputs : \A notes \in NotesInputs :
              create_event_fails(c, notes) <=> listed_failure(c))
    /\ [][create_event_step]_vars

\* C29 amended: create_event fails, persisting nothing and leaving events and
\* cache untouched, in the seven listed cases and also when year < 1900 (the
\* check constraint ck_lineage_event_year_min refuses the row at the commit);
\* in every other case exactly one event is persisted.
C29_CreateEventFailureCases ==
    /\ [](\A c \in EventInputs : \A notes \in NotesInputs :
              create_event_fails(c, notes)
                  <=> (listed_failure(c) \/ below_minimum_year(c)))
    /\ [][create_event_step]_vars

\* a call has failed while the cache holds an entry and events exist, in a
\* store where each of the cases has a request that falls under it
C29_Witness ==
    /\ last.op = "create_event"
    /\ last.result # "ok"
    /\ DOMAIN cache # {}
    /\ Len(events) > 0
    /\ \E c \in EventInputs : both_empty(c)
    /\ \E c \in EventInputs : same_endpoints(c)
    /\ \E c \in EventInputs : unknown_endpoint(c)
    /\ \E c \in EventInputs : before_founding(c) /\ c[3] >= MinYear
    /\ \E c \in EventInputs : after_dissolution(c)
    /\ \E c \in EventInputs : merge_without_next(c) /\ c[1] \in 1..Len(nodes)
    /\ \E c \in EventInputs : split_without_previous(c) /\ c[2] \in 1..Len(nodes)
    /\ \E c \in EventInputs : below_minimum_year(c) /\ ~listed_failure(c)

\* ---------------------------------------------------------------- C30
\* event i of the committed rows is a MERGE or SPLIT leg with no other leg
\* in its group
lone_leg(i) ==
    /\ events[i].event_type \in {"MERGE", "SPLIT"}
    /\ \A j \in 1..Len(events) :
          j # i => ~(/\ events[j].event_type = events[i].event_type
                     /\ events[j].event_year = events[i].event_year
                     /\ IF events[i].event_type = "MERGE"
                        THEN events[j].next_node_id = events[i].next_node_id
                        ELSE events[j].previous_node_id = events[i].previous_node_id)

\* C30: canonicalization runs in the transaction of the insert, so no
\* committed state a concurrent reader can observe between the steps of
\* create_event holds a MERGE event alone in its (year, next node) group or a
\* SPLIT event alone in its (year, previous node) group.
C30_NoLoneLegIsCommitted ==
    \A i \in 1..Len(events) : ~lone_leg(i)

\* the part that holds: once create_event has returned no leg is alone
C30_NoLoneLegAfterReturn ==
    writer_free => \A i \in 1..Len(events) : ~lone_leg(i)

\* two create_event calls of MERGE legs into node 2, each in its own session
NextLegs ==
    \/ \E s \in Sessions : session_event_commit(s)
    \/ \E s \in Sessions : session_event_query(s)
    \/ \E s \in Sessions : session_event_canonicalize(s)

SpecLegs == Init /\ [][NextLegs]_vars

\* ---------------------------------------------------------------- C31
\* two legs have been created, one by each session, and both calls returned
both_legs_done ==
    /\ Len(events) = 2
    /\ \A s \in Sessions : sessions[s].pc = "event_done"

\* the events the two legs leave when the calls run one after the other
sequential(a, b) == create_event_applied(create_event_applied(<< >>, a), b)

\* C31: two concurrent create_event calls of MERGE legs with the same year
\* and next node end, in every interleaving of their commits and queries,
\* with the event types and notes that the two calls leave when run one
\* after the other.
C31_ConcurrentLegsConverge ==
    both_legs_done =>
        \A s \in Sessions : \A t \in Sessions \ {s} :
            sessions[s].id = 1 =>
                events = sequential(sessions[s].leg, sessions[t].leg)

\* ---------------------------------------------------------------- C32
\* the step is an approval by review_edit of an edit that was APPROVED before
second_approval ==
    /\ last'.op = "review_edit"
    /\ last'.result \in {"approved", "promoted"}
    /\ edits[last'.edit].status = "APPROVED"

\* C32: an edit is applied at most once: an approval by review_edit of an
\* edit that is already APPROVED changes no node, era or event and does not
\* increment the submitter's counter again.
C32_EditAppliedAtMostOnce ==
    [][second_approval =>
          /\ nodes' = nodes /\ eras' = eras /\ events' = events
          /\ users'[edits[last'.edit].user_id].approved_edits_count =
                users[edits[last'.edit].user_id].approved_edits_count]_vars

\* ---------------------------------------------------------------- C33
\* the Edit records of user u with status APPROVED
approved_records(es, u) ==
    {i \in 1..Len(es) : es[i].user_id = u /\ es[i].status = "APPROVED"}

counters_consistent(us, es) ==
    \A u \in Users : us[u].approved_edits_count = Cardinality(approved_records(es, u))

\* C33: between operations, every user's approved_edits_count equals the
\* number of that user's Edit records with status APPROVED.
C33_CounterMatchesApprovedEdits ==
    counters_consistent(users, edits)

\* the part that holds: a creation, or a review of an edit still PENDING,
\* keeps the counters consistent
C33_FirstDecisionsKeepCount ==
    [][(/\ counters_consistent(users, edits)
        /\ last'.op = "review_edit" => edits[last'.edit].status = "PENDING")
          => counters_consistent(users', edits')]_vars

\* one submitter's edits, one for each session, approved in concurrent
\* sessions
submit_for_sessions == create_metadata_edit_of(SubmitterInputs, MaxSessions, MaxCount)

NextApprovals ==
    \/ submit_for_sessions
    \/ \E s \in Sessions : session_review_apply(s)
    \/ \E s \in Sessions : session_review_commit(s)

SpecApprovals == Init /\ [][NextApprovals]_vars

\* ---------------------------------------------------------------- C34
no_review_in_progress == \A s \in Sessions : sessions[s].pc # "review_applied"

\* C34: no counter update is lost: once the approvals in flight have
\* returned, every approved edit has contributed one to its submitter's
\* approved_edits_count, also when two approvals of different edits of one
\* submitter ran concurrently.
C34_NoLostCounterUpdate ==
    no_review_in_progress =>
        \A u \in Users :
            users[u].approved_edits_count >= Cardinality(approved_records(edits, u))

\* the reads with each kind of tier filter, beside a writer that empties the
\* cache
get_graph_data_by_tier == get_graph_data_of(TierInputs)

NextKeys ==
    \/ create_era
    \/ get_graph_data_by_tier

SpecKeys == Init /\ [][NextKeys]_vars

\* ---------------------------------------------------------------- C35
\* C35: a get_graph_data call served from the cache returns what a fresh
\* computation with the same start_year, end_year, include_dissolved and
\* tier_filter returns, so calls whose arguments give different projections
\* never share a cache entry.
C35_CacheHitEqualsFreshComputation ==
    [][(last'.op = "get_graph_data" /\ last'.result = "hit")
          => last'.arg[2] = projection(last'.arg[1])]_vars

\* the part that holds: the same for the calls whose filter names a tier
C35_CacheHitEqualsFreshForNamedTiers ==
    [][(/\ last'.op = "get_graph_data" /\ last'.result = "hit"
        /\ last'.arg[1].tier_filter \notin {NoneList, << >>})
          => last'.arg[2] = projection(last'.arg[1])]_vars

\* ---------------------------------------------------------------- C36
no_event_call_in_progress == \A s \in Sessions : session_free(s)

\* C36: between operations no MERGE event is alone in its (year, next node)
\* group and no SPLIT event alone in its (year, previous node) group,
\* whether create_event or the application of a merge or split made them.
C36_NoLoneLegSurvives ==
    no_event_call_in_progress => \A i \in 1..Len(events) : ~lone_leg(i)

\* the part that holds: the same when the operations run one at a time
C36_NoLoneLegOneAtATime ==
    \A i \in 1..Len(events) : ~lone_leg(i)

\* ------------------------------------------------ C37: window monotonicity
\* the ranges [s1, e1] within [s2, e2], and the tier filters compared
Windows == {w \in (MinYear..MaxYear) \X (MinYear..MaxYear) : w[1] <= w[2]}

within(narrow, wide) == wide[1] <= narrow[1] /\ narrow[2] <= wide[2]

WindowTiers == {NoneList, << >>, <<1>>}

window(w, include_dissolved, tier_filter) ==
    projection(GraphArgs(w[1], w[2], include_dissolved, tier_filter))

\* the (source, target) pairs of the links a projection lists
link_pairs(result) ==
    {<<result.links[i].source, result.links[i].target>> : i \in 1..Len(result.links)}

nodes_monotone(include_dissolved) ==
    \A narrow, wide \in Windows : \A f \in WindowTiers :
        within(narrow, wide)
            => node_ids(window(narrow, include_dissolved, f))
                   \subseteq node_ids(window(wide, include_dissolved, f))

links_monotone(include_dissolved) ==
    \A narrow, wide \in Windows : \A f \in WindowTiers :
        within(narrow, wide)
            => link_pairs(window(narrow, include_dissolved, f))
                   \subseteq link_pairs(window(wide, include_dissolved, f))

SplitAgainInputs ==
    {<<1, y, [k \in 1..MaxTargets |-> IF k = 1 THEN Alpha ELSE Beta]>> : y \in MinYear..MaxYear}

DissolutionCaps ==
    Caps(2 + MaxSplits * MaxTargets, 3 + MaxSplits * MaxTargets, MaxSplits * MaxTargets, MaxSplits, MaxCount)

split_again == create_split_edit_within(Calls(SplitAgainInputs), DissolutionCaps)

review_again == review_edit_within(DissolutionCaps)

NextDissolution ==
    \/ create_era
    \/ split_again
    \/ review_again

SpecDissolution == Init /\ [][NextDissolution]_vars

\* the MERGE and SPLIT events that leave node n
outgoing(evs, n) ==
    {i \in 1..Len(evs) : evs[i].previous_node_id = n /\ evs[i].event_type \in {"MERGE", "SPLIT"}}

dissolved(n) == nodes[n].dissolution_year # None

\* the step is a merge or split edit, created or reviewed
merge_or_split_step ==
    last'.op \in {"create_merge_edit", "create_split_edit", "review_edit"}

\* C38: once a merge or split has set a node's dissolution_year, no later
\* merge or split edit, trusted or approved, changes that dissolution_year or
\* adds MERGE or SPLIT events that leave the node.
C38_DissolvedAtMostOnce ==
    [][merge_or_split_step
          => \A n \in 1..Len(nodes) :
                dissolved(n)
                    => /\ nodes'[n].dissolution_year = nodes[n].dissolution_year
                       /\ outgoing(events', n) = outgoing(events, n)]_vars

\* the first half of C38 alone: the dissolution_year of a dissolved node stays
C38_DissolutionYearKept ==
    [][merge_or_split_step
          => \A n \in 1..Len(nodes) :
                dissolved(n) => nodes'[n].dissolution_year = nodes[n].dissolution_year]_vars

\* the part of C38 that holds: a dissolved node stays dissolved and keeps the
\* events that leave it
C38_DissolvedStaysDissolved ==
    [][\A n \in 1..Len(nodes) :
          dissolved(n) => /\ nodes'[n].dissolution_year # None
                          /\ outgoing(events, n) \subseteq outgoing(events', n)]_vars

\* -------------------------------------------- C39: rate limiter spacing
NextLimiter ==
    \/ clock_tick
    \/ \E c \in Callers, d \in Domains : wait_if_needed_call(c, d)
    \/ \E c \in Callers : wait_if_needed_acquire(c)
    \/ \E c \in Callers : wait_if_needed_check(c)
    \/ \E c \in Callers : wait_if_needed_wake(c)
    \/ \E c \in Callers : wait_if_needed_return(c)

SpecLimiter == Init /\ [][NextLimiter]_vars

\* the coroutines inside "async with self._locks[domain]"
inside(domain) ==
    {c \in Callers : /\ limiter.callers[c].pc \in {"locked", "sleeping", "awake"}
                     /\ limiter.callers[c].domain = domain}

\* the calls for the domain that have returned, in the order they returned
returned_for(domain) == SelectSeq(limiter.returned, LAMBDA r : r.domain = domain)

\* C39: whatever number of coroutines call wait_if_needed for a domain at the
\* same time, at most one of them is inside the locked body, any two
\* consecutive returns for the domain are at least min_delay apart on the
\* clock, and the first call to return for a domain has not slept.
C39_RateLimiterSpacing ==
    \A d \in Domains :
        /\ Cardinality(inside(d)) <= 1
        /\ \A i \in 1..(Len(returned_for(d)) - 1) :
              returned_for(d)[i + 1].time - returned_for(d)[i].time >= min_delay
        /\ Len(returned_for(d)) >= 1 => ~returned_for(d)[1].slept

\* every coroutine has called for the same domain and returned, all but the
\* first after a sleep, in the shortest time the spacing allows
C39_Witness ==
    \E d \in Domains :
        /\ Len(returned_for(d)) = MaxCallers
        /\ \A i \in 2..MaxCallers : returned_for(d)[i].slept
        /\ limiter.now = (MaxCallers - 1) * min_delay

====
